---- MODULE Spec2Model ----
(***************************************************************************)
(* UWB indoor positioning: the position estimators, the consistency        *)
(* checker and the Kalman filter of socialbodylab/ultrawideband-interactions*)
(*                                                                         *)
(* Number model.  The sketches compute in C float.                         *)
(*  - A coordinate or position is an exact rational <<n, d>>, d > 0, in     *)
(*    lowest terms (centimetres).                                          *)
(*  - A length (a measured distance, an anchor-to-anchor distance) is held *)
(*    as its signed square: the integer s stands for sign(s)*sqrt(|s|) cm, *)
(*    so the exact distance between two grid points is representable.      *)
(*    The estimators use a distance only as "d > 0" and "d*d".             *)
(*  - The Kalman filter state is fixed point, in units of 1/FixedOne cm,   *)
(*    every product and quotient rounded to the nearest unit.              *)
(***************************************************************************)
EXTENDS Integers, Sequences, FiniteSets, TLC

VARIABLES
    \* MaUWB_TAG object
    numAnchors, anchorX, anchorY, distances,
    currentX, currentY,
    positionXHistory, positionYHistory,
    positionHistoryIndex, positionHistoryFilled, positionHistoryLength,
    cycle,      \* what the last calculatePosition call did (its locals, the callback)
    cycles,     \* calls of parseRangeData so far (counted where a run is bounded)
    lastOp,     \* the operation that produced the current state
    \* robust_multilateration_test.ino (dist_to_a[i] is dist_to_a<i>, quality_a[i] is quality_a<i>)
    dist_to_a, quality_a,
    kalman_x, kalman_y, kalman_p_x, kalman_p_y,
    positionX, positionY,
    updates,    \* filter updates since startup or the last reset
    meas,       \* the raw measurement fed to the filter when it is run on its own
    noise,      \* position test sketch: the factor (in percent) applied to each distance
    rawLog,     \* the raw positions accepted since setPositionHistoryLength took effect
    calls,      \* configuration calls so far (counted where a run is bounded)
    \* calibration tool (the notice is the last line written to errorDiv)
    rangeReadings, averageRange, errorPercentage, targetDistance, notice,
    \* visualizer: the UWB objects tag[0..7] and the line processSerialData handled last
    tag, packet,
    \* the determinant test of a triplet: anchors at (0, 0), (0, corner[2]) and
    \* (corner[1], corner[2]) (fractions); solvedBy[i] is what implementation i
    \* did with the triplet
    corner, solvedBy,
    \* the header implementation: the fields of the line parseRangeData was given last
    line,
    \* the serial link to the UWB module: bytes the module has sent that have not
    \* arrived (wire), the receive buffer of SERIAL_AT (rxBuffer), the member response,
    \* the arguments of the parseRangeData calls made (parsed), lines sent (sent)
    wire, rxBuffer, response, parsed, sent

tagVars == <<numAnchors, anchorX, anchorY, distances, currentX, currentY,
             positionXHistory, positionYHistory, positionHistoryIndex,
             positionHistoryFilled, positionHistoryLength, cycle>>

\* the MaUWB_TAG object without the record of its last cycle
tagVars_cfg == <<numAnchors, anchorX, anchorY, distances, currentX, currentY,
                 positionXHistory, positionYHistory, positionHistoryIndex,
                 positionHistoryFilled, positionHistoryLength>>

kalmanVars == <<kalman_x, kalman_y, kalman_p_x, kalman_p_y>>

\* the variables of the other sketches and the records kept for the properties
calVars == <<rangeReadings, averageRange, errorPercentage, targetDistance, notice>>

\* the browser tools
vizVars == <<tag, packet>>

detVars == <<corner, solvedBy>>

\* the variables of the remaining sketches
\* what the firmware exchanges with the UWB module
serialVars == <<wire, rxBuffer, response, parsed, sent>>

ioVars == <<line, serialVars>>

moreVars == <<detVars, ioVars>>

toolVars == <<calVars, vizVars, moreVars>>

otherVars == <<noise, rawLog, calls, toolVars>>

robustVars == <<dist_to_a, quality_a, kalmanVars, positionX, positionY, updates, meas,
                otherVars>>

vars == <<tagVars, cycles, lastOp, robustVars>>

----------------------------------------------------------------------------
(* Exact rational arithmetic *)

Abs(a) == IF a < 0 THEN -a ELSE a

RECURSIVE GCD(_, _)
GCD(a, b) ==
    IF b = 0 THEN a
    ELSE LET r1 == a % b
         IN  IF r1 = 0 THEN b
             ELSE LET r2 == b % r1
                  IN  IF r2 = 0 THEN r1
                      ELSE LET r3 == r1 % r2
                           IN  IF r3 = 0 THEN r2 ELSE GCD(r3, r2 % r3)

Rat(n, d) ==
    LET s == IF d < 0 THEN -1 ELSE 1
        g == GCD(Abs(n), Abs(d))
    IN  <<(s * n) \div g, (s * d) \div g>>

RInt(i) == <<i, 1>>

RAdd(a, b) ==
    LET l == (a[2] \div GCD(a[2], b[2])) * b[2]
    IN  Rat(a[1] * (l \div a[2]) + b[1] * (l \div b[2]), l)

RNeg(a) == <<-a[1], a[2]>>

RSub(a, b) == RAdd(a, RNeg(b))

RMul(a, b) ==
    LET g1 == GCD(Abs(a[1]), b[2])
        g2 == GCD(Abs(b[1]), a[2])
    IN  <<(a[1] \div g1) * (b[1] \div g2), (a[2] \div g2) * (b[2] \div g1)>>

RDiv(a, b) == RMul(a, Rat(b[2], b[1]))

RLe(a, b) == a[1] * b[2] <= b[1] * a[2]

RLt(a, b) == a[1] * b[2] < b[1] * a[2]

----------------------------------------------------------------------------
(* Fixed-point arithmetic of the filter, and exact comparison of lengths *)

FixedOne == 1000 * 1000

\* the base in which MulDivMod takes b apart: the largest of 8 and 1024 that
\* keeps 2 * Radix * c below 2^31
Radix(c) == IF c <= FixedOne THEN 1024 ELSE 8

\* <<quotient, remainder>> of a * b by c, for a, b >= 0 and 0 < c < 2^31 / 16,
\* computed without forming a * b
RECURSIVE MulDivMod(_, _, _)
MulDivMod(a, b, c) ==
    IF a = 0 \/ b = 0 THEN <<0, 0>>
    ELSE LET h == MulDivMod(a, b \div Radix(c), c)
             digit == b % Radix(c)
             r == Radix(c) * h[2] + digit * (a % c)
         IN  <<Radix(c) * h[1] + digit * (a \div c) + r \div c, r % c>>

\* a * b / c rounded to the nearest integer, b of either sign
MulDiv(a, b, c) ==
    LET m == MulDivMod(a, Abs(b), c)
        q == IF 2 * m[2] >= c THEN m[1] + 1 ELSE m[1]
    IN  IF b < 0 THEN -q ELSE q

\* a rational in fixed point
ToFixed(r) == MulDiv(FixedOne, r[1], r[2])

Fixed(i) == i * FixedOne

\* a * b for 0 <= a, b < 10^6, as <<high, low>> with a * b = high * 10^6 + low
WideMul(a, b) ==
    LET a1 == a \div 1000
        a0 == a % 1000
        b1 == b \div 1000
        b0 == b % 1000
        mid == a1 * b0 + a0 * b1
        low == (mid % 1000) * 1000 + a0 * b0
    IN  <<a1 * b1 + mid \div 1000 + low \div 1000000, low % 1000000>>

WideLess(u, v) == u[1] < v[1] \/ (u[1] = v[1] /\ u[2] < v[2])

\* sqrt(p) + sqrt(q) > sqrt(r) for lengths p, q, r >= 0 held as squares:
\* 2 * sqrt(p * q) > r - p - q
LenSumGt(p, q, r) ==
    LET t == r - p - q
        pq == WideMul(p, q)
        pq4 == <<4 * pq[1] + (4 * pq[2]) \div 1000000, (4 * pq[2]) % 1000000>>
    IN  IF t < 0 THEN TRUE ELSE WideLess(WideMul(t, t), pq4)

----------------------------------------------------------------------------
(* MaUWB_TAG, the class implementation of MaUWB-TAG_new.ino *)

MAX_ANCHORS == 10
MAX_HISTORY == 10

AnchorIdx == 0 .. MAX_ANCHORS - 1
HistoryIdx == 0 .. MAX_HISTORY - 1

\* distances[i] > 0: anchor i has a measurement this cycle
ValidDistances(n, d) == Cardinality({i \in 0 .. n - 1 : d[i] > 0})

\* the triplets the three nested loops of calculatePosition visit
Triplets(n) ==
    {t \in (0 .. n - 1) \X (0 .. n - 1) \X (0 .. n - 1) : t[1] < t[2] /\ t[2] < t[3]}

\* the two linear equations of a triplet and the determinant of the system
TripletSystem(ax, ay, d, a1, a2, a3) ==
    [A1 |-> 2 * (ax[a2] - ax[a1]),
     B1 |-> 2 * (ay[a2] - ay[a1]),
     C1 |-> Abs(d[a1]) - Abs(d[a2]) - ax[a1] * ax[a1] + ax[a2] * ax[a2]
              - ay[a1] * ay[a1] + ay[a2] * ay[a2],
     A2 |-> 2 * (ax[a3] - ax[a2]),
     B2 |-> 2 * (ay[a3] - ay[a2]),
     C2 |-> Abs(d[a2]) - Abs(d[a3]) - ax[a2] * ax[a2] + ax[a3] * ax[a3]
              - ay[a2] * ay[a2] + ay[a3] * ay[a3]]

NoSolution == [ok |-> FALSE, x |-> RInt(0), y |-> RInt(0)]

\* a plausible slip: the two products of the y numerator exchanged
calculatePositionFromTriplet_ySwapped(ax, ay, d, a1, a2, a3) ==
    LET e == TripletSystem(ax, ay, d, a1, a2, a3)
        denominator == e.A1 * e.B2 - e.A2 * e.B1
    IN  IF Abs(denominator) < 1 THEN NoSolution
        ELSE [ok |-> TRUE,
              x  |-> Rat(e.C1 * e.B2 - e.C2 * e.B1, denominator),
              y  |-> Rat(e.A2 * e.C1 - e.A1 * e.C2, denominator)]

\* a plausible slip: the determinant formed with + instead of -
calculatePositionFromTriplet_detSign(ax, ay, d, a1, a2, a3) ==
    LET e == TripletSystem(ax, ay, d, a1, a2, a3)
        denominator == e.A1 * e.B2 + e.A2 * e.B1
    IN  IF Abs(denominator) < 1 THEN NoSolution
        ELSE [ok |-> TRUE,
              x  |-> Rat(e.C1 * e.B2 - e.C2 * e.B1, denominator),
              y  |-> Rat(e.A1 * e.C2 - e.A2 * e.C1, denominator)]

\* calculatePositionFromTriplet(a1, a2, a3, x, y): ok is the return value.
\* The denominator is an integer here, so |denominator| < 0.000001 is |denominator| < 1.
calculatePositionFromTriplet(ax, ay, d, a1, a2, a3) ==
    LET e == TripletSystem(ax, ay, d, a1, a2, a3)
        denominator == e.A1 * e.B2 - e.A2 * e.B1
    IN  IF Abs(denominator) < 1 THEN NoSolution
        ELSE [ok |-> TRUE,
              x  |-> Rat(e.C1 * e.B2 - e.C2 * e.B1, denominator),
              y  |-> Rat(e.A1 * e.C2 - e.A2 * e.C1, denominator)]

\* the triplets that pass "distances[i] > 0 && distances[j] > 0 && distances[k] > 0"
UsableTriplets(n, d) ==
    {t \in Triplets(n) : d[t[1]] > 0 /\ d[t[2]] > 0 /\ d[t[3]] > 0}

\* of the triplets T, the ones calculatePositionFromTriplet solves
SolvedTriplets(T, ax, ay, d) ==
    {t \in T : calculatePositionFromTriplet(ax, ay, d, t[1], t[2], t[3]).ok}

\* the values sumX (axis "x") or sumY takes while the loops run over the solved
\* triplets T, the start value 0 first
RECURSIVE RunningSums(_, _, _, _, _)
RunningSums(T, ax, ay, d, axis) ==
    IF T = {} THEN <<RInt(0)>>
    ELSE LET t == CHOOSE u \in T : TRUE
             s == calculatePositionFromTriplet(ax, ay, d, t[1], t[2], t[3])
             before == RunningSums(T \ {t}, ax, ay, d, axis)
         IN  Append(before, RAdd(before[Len(before)],
                                 IF axis = "x" THEN s.x ELSE s.y))

SumSolutions(T, ax, ay, d, axis) ==
    LET sums == RunningSums(T, ax, ay, d, axis)
    IN  sums[Len(sums)]

\* The locals of one calculatePosition call:
\*   tried          calls of calculatePositionFromTriplet
\*   validSolutions its local of that name
\*   rawX, rawY     the average (0 when there is none)
\*   accepted       the boundary check passed: history updated, onPositionUpdate called
NoCycle == [tried |-> 0, validSolutions |-> 0,
            rawX |-> RInt(0), rawY |-> RInt(0), accepted |-> FALSE]

\* the averaging and the boundary check of MaUWB_TAG::calculatePosition over
\* the triplets T that passed the distance test
AverageTriplets(T, ax, ay, d) ==
    LET S == SolvedTriplets(T, ax, ay, d)
        v == Cardinality(S)
    IN  IF v = 0
        THEN [NoCycle EXCEPT !.tried = Cardinality(T)]
        ELSE LET rawX == RDiv(SumSolutions(S, ax, ay, d, "x"), RInt(v))
                 rawY == RDiv(SumSolutions(S, ax, ay, d, "y"), RInt(v))
             IN  [tried |-> Cardinality(T),
                  validSolutions |-> v,
                  rawX |-> rawX, rawY |-> rawY,
                  accepted |-> /\ RLe(RInt(0), rawX) /\ RLe(RInt(0), rawY)
                               /\ RLe(rawX, RInt(ax[2]))
                               /\ RLe(rawY, RInt(ay[1]))]

\* a plausible slip: no test of distances[i] > 0 anywhere
calculatePositionResult_noDistanceTest(n, ax, ay, d) ==
    IF n < 3 THEN NoCycle
    ELSE AverageTriplets(Triplets(n), ax, ay, d)

\* MaUWB_TAG::calculatePosition up to the boundary check
calculatePositionResult(n, ax, ay, d) ==
    IF n < 3 THEN NoCycle
    ELSE IF ValidDistances(n, d) < 3 THEN NoCycle
    ELSE AverageTriplets(UsableTriplets(n, d), ax, ay, d)

RECURSIVE SumHistory(_, _)
SumHistory(h, count) ==
    IF count = 0 THEN RInt(0) ELSE RAdd(h[count - 1], SumHistory(h, count - 1))

\* MaUWB_TAG::updatePositionHistory(x, y)
updatePositionHistory(x, y) ==
    LET hx == [positionXHistory EXCEPT ![positionHistoryIndex] = x]
        hy == [positionYHistory EXCEPT ![positionHistoryIndex] = y]
        idx == (positionHistoryIndex + 1) % positionHistoryLength
        filled == positionHistoryFilled \/ idx = 0
        count == IF filled THEN positionHistoryLength ELSE idx
    IN  /\ positionXHistory' = hx
        /\ positionYHistory' = hy
        /\ positionHistoryIndex' = idx
        /\ positionHistoryFilled' = filled
        /\ IF count > 0
           THEN /\ currentX' = RDiv(SumHistory(hx, count), RInt(count))
                /\ currentY' = RDiv(SumHistory(hy, count), RInt(count))
           ELSE UNCHANGED <<currentX, currentY>>

\* MaUWB_TAG::calculatePosition on the distances just stored
calculatePosition(d) ==
        /\ cycle' = calculatePositionResult(numAnchors, anchorX, anchorY, d)
        /\ IF cycle'.accepted
           THEN updatePositionHistory(cycle'.rawX, cycle'.rawY)
           ELSE UNCHANGED <<currentX, currentY, positionXHistory, positionYHistory,
                            positionHistoryIndex, positionHistoryFilled>>

----------------------------------------------------------------------------
(* Configuration and inputs *)

\* setDefaultAnchors: (0,0) (0,600) (380,600) (380,0)
DefaultX == <<0, 0, 380, 380>>
DefaultY == <<0, 600, 600, 0>>

\* the anchor arrays after the constructor and setAnchorPosition(i, xs[i], ys[i]), i < n
AnchorArray(n, cs, defaults) ==
    [i \in AnchorIdx |-> IF i < n THEN cs[i + 1]
                         ELSE IF i < 4 THEN defaults[i + 1] ELSE 0]

\* layouts configured in setup(): the default one, the same corners clockwise,
\* all anchors on one line, three of four on one line, three anchors, five anchors,
\* a 300 x 400 room
Layouts ==
    { [n |-> 4, x |-> DefaultX, y |-> DefaultY],
      [n |-> 4, x |-> <<0, 380, 380, 0>>, y |-> <<0, 0, 600, 600>>],
      [n |-> 4, x |-> <<0, 100, 200, 380>>, y |-> <<0, 150, 300, 570>>],
      [n |-> 4, x |-> <<0, 0, 380, 190>>, y |-> <<0, 600, 600, 600>>],
      [n |-> 3, x |-> <<0, 0, 380>>, y |-> <<0, 600, 600>>],
      [n |-> 5, x |-> <<0, 0, 380, 380, 190>>, y |-> <<0, 600, 600, 0, 300>>],
      [n |-> 4, x |-> <<0, 0, 300, 300>>, y |-> <<0, 400, 400, 0>>] }

IsDefaultLayout ==
    /\ numAnchors = 4
    /\ \A i \in 0 .. 3 : anchorX[i] = DefaultX[i + 1] /\ anchorY[i] = DefaultY[i + 1]

\* tag positions in the 380 x 600 room (corners and edges included) and outside it
InsideTags ==
    {<<190, 300>>, <<0, 300>>, <<190, 0>>, <<380, 600>>, <<100, 200>>, <<37, 411>>,
     <<0, 0>>}
OutsideTags == {<<-5, 300>>, <<190, 650>>}
TagPoints == InsideTags \cup OutsideTags

\* calculateDistance(x1, y1, x2, y2), as a length (the square of the value)
calculateDistance(x1, y1, x2, y2) == (x2 - x1) * (x2 - x1) + (y2 - y1) * (y2 - y1)

\* the exact distance from tag t to anchor i
ExactDistance(t, i) == calculateDistance(t[1], t[2], anchorX[i], anchorY[i])

\* "no measurement" is reported as 0 or as a negative value
NoReading(i) == IF i % 2 = 0 THEN 0 ELSE -1

DropSets == {{}, {0}, {1, 2}, {0, 1, 3}}

\* measured values that belong to no tag position
NoisyValues ==
    { <<10000, 422500, 422500, 10000, 90000>>,
      <<160000, 90000, 40000, 250000, 90000>> }

Token(v) == [fits |-> TRUE, value |-> v]
\* a field of 10 or more characters is skipped by the parser
LongToken == [fits |-> FALSE, value |-> 0]

\* the value lists "range:(...)" can carry, one token per anchor slot
Responses ==
    LET n == numAnchors
        exact == {[i \in 1 .. n |->
                      Token(IF (i - 1) \in D THEN NoReading(i - 1)
                            ELSE ExactDistance(t, i - 1))] :
                      t \in TagPoints, D \in DropSets}
        noisy == {[i \in 1 .. n |-> Token(v[i])] : v \in NoisyValues}
        full  == [i \in 1 .. n |-> Token(ExactDistance(<<190, 300>>, i - 1))]
    IN  exact \cup noisy
          \cup {SubSeq(full, 1, 2), <<>>, [full EXCEPT ![1] = LongToken]}

----------------------------------------------------------------------------
(* The globals of robust_multilateration_test.ino at startup *)

kalman_q == FixedOne \div 100
kalman_r == FixedOne

KalmanStartup == <<Fixed(190), Fixed(300), Fixed(100), Fixed(100)>>

\* no factor applied to any distance
NoNoise == [i \in 0 .. 3 |-> 100]

\* the other sketches not started, nothing recorded
tag_count == 8

\* new UWB(name, 1, sound): the fields the position calculation uses
NewUWB == [x |-> 0, y |-> 0, status |-> FALSE,
           list |-> <<0, 0, 0, 0, 0, 0, 0, 0>>, needsUpdate |-> FALSE]

\* a parsed line: {"id": id, "range": range}, either key possibly missing
NoPacket == [hasId |-> FALSE, id |-> 0, hasRange |-> FALSE, range |-> <<>>]

MoreIdle ==
    /\ corner = <<RInt(380), RInt(600)>>
    /\ solvedBy = [i \in {"new", "header", "sketch"} |-> "untried"]
    /\ line = <<>>
    /\ wire = <<>>
    /\ rxBuffer = <<>>
    /\ response = <<>>
    /\ parsed = <<>>
    /\ sent = 0

ToolsIdle ==
    /\ rangeReadings = <<>>
    /\ averageRange = RInt(0)
    /\ errorPercentage = RInt(0)
    /\ targetDistance = 750
    /\ notice = "none"
    /\ tag = [i \in 0 .. tag_count - 1 |-> NewUWB]
    /\ packet = NoPacket
    /\ MoreIdle

OthersIdle ==
    /\ noise = NoNoise
    /\ rawLog = <<>>
    /\ calls = 0
    /\ ToolsIdle

RobustStartup ==
    /\ dist_to_a = [i \in 0 .. 3 |-> 0]
    /\ quality_a = [i \in 0 .. 3 |-> RInt(1)]
    /\ kalman_x = KalmanStartup[1]
    /\ kalman_y = KalmanStartup[2]
    /\ kalman_p_x = KalmanStartup[3]
    /\ kalman_p_y = KalmanStartup[4]
    /\ positionX = 0
    /\ positionY = 0
    /\ updates = 0
    /\ meas = <<0, 0>>
    /\ OthersIdle

----------------------------------------------------------------------------
(* Operations of MaUWB_TAG *)

\* the constructor followed by the anchor configuration of setup()
Init ==
    /\ \E L \in Layouts :
          /\ numAnchors = L.n
          /\ anchorX = AnchorArray(L.n, L.x, DefaultX)
          /\ anchorY = AnchorArray(L.n, L.y, DefaultY)
    /\ distances = [i \in AnchorIdx |-> 0]
    /\ currentX = RInt(0)
    /\ currentY = RInt(0)
    /\ positionXHistory = [i \in HistoryIdx |-> RInt(0)]
    /\ positionYHistory = [i \in HistoryIdx |-> RInt(0)]
    /\ positionHistoryIndex = 0
    /\ positionHistoryFilled = FALSE
    /\ positionHistoryLength = 1
    /\ cycle = NoCycle
    /\ cycles = 0
    /\ lastOp = "init"
    /\ RobustStartup

\* MaUWB_TAG::parseRangeData on a line that holds "range:(" vals ")"
parseRangeData(vals) ==
    LET d == [i \in AnchorIdx |->
                 IF i < numAnchors /\ i < Len(vals) /\ vals[i + 1].fits
                 THEN vals[i + 1].value ELSE distances[i]]
    IN  /\ distances' = d
        /\ calculatePosition(distances')
        /\ lastOp' = "parseRangeData"
        /\ UNCHANGED <<numAnchors, anchorX, anchorY, positionHistoryLength, cycles,
                       robustVars>>

Next == \E vals \in Responses : parseRangeData(vals)

Spec == Init /\ [][Next]_vars

----------------------------------------------------------------------------
(* Properties of MaUWB_TAG (MaUWB-TAG_new.ino), checked under Spec *)

PositionStore == <<currentX, currentY, positionXHistory, positionYHistory,
                   positionHistoryIndex, positionHistoryFilled>>

DistancesAreExact(t) == \A i \in 0 .. numAnchors - 1 : distances[i] = ExactDistance(t, i)

\* C1 - Exact recovery: in the default layout, a cycle run on the exact
\* distances from a tag inside the room to all 4 anchors is accepted, every
\* triplet it solves gives the tag position, and so do the average and the
\* stored position.
C1_ExactRecovery ==
    \A t \in InsideTags :
        (lastOp = "parseRangeData" /\ IsDefaultLayout /\ DistancesAreExact(t))
        => /\ cycle.accepted
           /\ cycle.validSolutions > 0
           /\ \A u \in UsableTriplets(numAnchors, distances) :
                 LET s == calculatePositionFromTriplet(anchorX, anchorY, distances,
                                                       u[1], u[2], u[3])
                 IN  s.ok => s.x = RInt(t[1]) /\ s.y = RInt(t[2])
           /\ cycle.rawX = RInt(t[1]) /\ cycle.rawY = RInt(t[2])
           /\ currentX = RInt(t[1]) /\ currentY = RInt(t[2])

\* the centre (190, 300) recovered from all four triplets
C1_Witness ==
    /\ lastOp = "parseRangeData" /\ IsDefaultLayout
    /\ DistancesAreExact(<<190, 300>>)
    /\ cycle.validSolutions = 4
    /\ currentX = RInt(190) /\ currentY = RInt(300)

\* C2 - Insufficient data: a cycle that finds fewer than 3 configured anchors
\* with distance > 0 solves no triplet, calls no callback and leaves the
\* stored position and the position history as they were.
C2_InsufficientData ==
    [][ (lastOp' = "parseRangeData" /\ ValidDistances(numAnchors', distances') < 3)
        => (/\ cycle'.tried = 0
            /\ ~cycle'.accepted
            /\ UNCHANGED PositionStore) ]_vars

\* two usable anchors, the position of an earlier cycle retained
C2_Witness ==
    /\ lastOp = "parseRangeData"
    /\ numAnchors = 4
    /\ ValidDistances(numAnchors, distances) = 2
    /\ cycle.tried = 0
    /\ currentX = RInt(100) /\ currentY = RInt(200)
    /\ ~DistancesAreExact(<<100, 200>>)

Collinear(i, j, k) ==
    (anchorX[j] - anchorX[i]) * (anchorY[k] - anchorY[i])
        = (anchorX[k] - anchorX[i]) * (anchorY[j] - anchorY[i])

AllCollinear == \A t \in Triplets(numAnchors) : Collinear(t[1], t[2], t[3])

\* C4 - Degenerate rejection: with all configured anchors on one line no cycle
\* ever produces, stores or passes on a position; in any layout a cycle that
\* has a usable triplet of non-collinear anchors produces an average over
\* exactly the usable non-collinear triplets.
C4_DegenerateRejection ==
    /\ AllCollinear
         => /\ cycle.validSolutions = 0 /\ ~cycle.accepted
            /\ currentX = RInt(0) /\ currentY = RInt(0)
            /\ positionHistoryIndex = 0 /\ ~positionHistoryFilled
            /\ \A i \in HistoryIdx : positionXHistory[i] = RInt(0)
                                     /\ positionYHistory[i] = RInt(0)
    /\ (lastOp = "parseRangeData" /\ ValidDistances(numAnchors, distances) >= 3)
         => cycle.validSolutions =
               Cardinality({t \in UsableTriplets(numAnchors, distances) :
                               ~Collinear(t[1], t[2], t[3])})

\* all four anchors on one line, four usable distances, four triplets tried
C4_Witness ==
    /\ lastOp = "parseRangeData"
    /\ AllCollinear
    /\ ValidDistances(numAnchors, distances) = 4
    /\ cycle.tried = 4
    /\ cycle.validSolutions = 0

----------------------------------------------------------------------------
(* MaUWB_TAG, the header implementation of MaUWB-TAG.ino: the same object, *)
(* other method bodies                                                     *)

MaxHdrCycles == 3

\* calculatePositionFromTriplet of the header: the same system, solved the same way.
\* The denominator is an integer here, so |denominator| < 0.0001 is |denominator| < 1.
calculatePositionFromTriplet_h(ax, ay, d, a1, a2, a3) ==
    LET e == TripletSystem(ax, ay, d, a1, a2, a3)
        denominator == e.A1 * e.B2 - e.B1 * e.A2
    IN  IF Abs(denominator) < 1 THEN NoSolution
        ELSE [ok |-> TRUE,
              x  |-> Rat(e.C1 * e.B2 - e.C2 * e.B1, denominator),
              y  |-> Rat(e.A1 * e.C2 - e.A2 * e.C1, denominator)]

\* "Validate position is reasonable"
Reasonable(s) ==
    /\ RLe(RInt(-100), s.x) /\ RLe(s.x, RInt(500))
    /\ RLe(RInt(-100), s.y) /\ RLe(s.y, RInt(700))

\* the order in which the nested loops visit the triplets
VisitedBefore(t, u) ==
    \/ t[1] < u[1]
    \/ t[1] = u[1] /\ t[2] < u[2]
    \/ t[1] = u[1] /\ t[2] = u[2] /\ t[3] < u[3]

\* MaUWB_TAG::calculatePosition of the header up to the stores: the first
\* triplet, in loop order, that is usable, solvable and reasonable ends the search
calculatePositionResult_h(n, ax, ay, d) ==
    LET U == UsableTriplets(n, d)
        G == {t \in U :
                LET s == calculatePositionFromTriplet_h(ax, ay, d, t[1], t[2], t[3])
                IN  s.ok /\ Reasonable(s)}
    IN  IF G = {} THEN [NoCycle EXCEPT !.tried = Cardinality(U)]
        ELSE LET f == CHOOSE t \in G : \A u \in G : u = t \/ VisitedBefore(t, u)
                 s == calculatePositionFromTriplet_h(ax, ay, d, f[1], f[2], f[3])
             IN  [tried |-> Cardinality({u \in U : u = f \/ VisitedBefore(u, f)}),
                  validSolutions |-> 1,
                  rawX |-> s.x, rawY |-> s.y, accepted |-> TRUE]

\* MaUWB_TAG::calculatePosition of the header, with its updatePositionHistory
\* (which stores the position and computes no average)
calculatePosition_h(d) ==
    /\ cycle' = calculatePositionResult_h(numAnchors, anchorX, anchorY, d)
    /\ IF cycle'.accepted
       THEN /\ currentX' = cycle'.rawX
            /\ currentY' = cycle'.rawY
            /\ positionXHistory' =
                  [positionXHistory EXCEPT ![positionHistoryIndex] = cycle'.rawX]
            /\ positionYHistory' =
                  [positionYHistory EXCEPT ![positionHistoryIndex] = cycle'.rawY]
            /\ positionHistoryIndex' = (positionHistoryIndex + 1) % positionHistoryLength
            /\ positionHistoryFilled' =
                  (positionHistoryFilled \/ positionHistoryIndex' = 0)
       ELSE UNCHANGED <<currentX, currentY, positionXHistory, positionYHistory,
                        positionHistoryIndex, positionHistoryFilled>>

\* the values the header parser reads from one line: the floats of the
\* even-numbered comma fields after "+RANGE_CDS_ALL:"
Responses_h ==
    {[i \in 1 .. numAnchors |->
         IF (i - 1) \in D THEN NoReading(i - 1) ELSE ExactDistance(t, i - 1)] :
         t \in TagPoints, D \in DropSets}
      \cup {[i \in 1 .. numAnchors |-> v[i]] : v \in NoisyValues}

\* MaUWB_TAG::parseRangeData of the header: a value > 0 is stored at the next
\* free index, any other value is passed over
StoreValues_h(vals) ==
    LET pos == SelectSeq(vals, LAMBDA v : v > 0)
    IN  /\ cycles < MaxHdrCycles
        /\ distances' = [i \in AnchorIdx |->
                            IF i < numAnchors /\ i < Len(pos)
                            THEN pos[i + 1] ELSE distances[i]]
        /\ calculatePosition_h(distances')
        /\ cycles' = cycles + 1
        /\ lastOp' = "parseRangeData"
        /\ UNCHANGED <<numAnchors, anchorX, anchorY, positionHistoryLength>>

parseRangeData_h(vals) ==
    /\ StoreValues_h(vals)
    /\ UNCHANGED robustVars

\* the header constructor (history length 5) and the anchors of setup()
Init_h ==
    /\ numAnchors = 4
    /\ anchorX = AnchorArray(4, DefaultX, DefaultX)
    /\ anchorY = AnchorArray(4, DefaultY, DefaultY)
    /\ distances = [i \in AnchorIdx |-> 0]
    /\ currentX = RInt(0)
    /\ currentY = RInt(0)
    /\ positionXHistory = [i \in HistoryIdx |-> RInt(0)]
    /\ positionYHistory = [i \in HistoryIdx |-> RInt(0)]
    /\ positionHistoryIndex = 0
    /\ positionHistoryFilled = FALSE
    /\ positionHistoryLength = 5
    /\ cycle = NoCycle
    /\ cycles = 0
    /\ lastOp = "init"
    /\ RobustStartup

Next_h == \E vals \in Responses_h : parseRangeData_h(vals)

SpecHdr == Init_h /\ [][Next_h]_vars

----------------------------------------------------------------------------
(* robust_multilateration_test.ino: consistency check, weighted estimate,  *)
(* Kalman filter                                                           *)

MaxRobustCycles == 3
MaxUpdates == 22

anchor_x == [i \in 0 .. 3 |-> DefaultX[i + 1]]
anchor_y == [i \in 0 .. 3 |-> DefaultY[i + 1]]

\* checkTriangleInequality(a, b, c) on lengths
checkTriangleInequality(a, b, c) ==
    LenSumGt(a, b, c) /\ LenSumGt(a, c, b) /\ LenSumGt(b, c, a)

\* the anchor pairs in the order the two loops of detectInconsistentMeasurements visit them
AnchorPairs == <<<<0, 1>>, <<0, 2>>, <<0, 3>>, <<1, 2>>, <<1, 3>>, <<2, 3>>>>

PairViolates(d, i, j) ==
    ~checkTriangleInequality(d[i], d[j],
        calculateDistance(anchor_x[i], anchor_y[i], anchor_x[j], anchor_y[j]))

Half == <<1, 2>>

\* the pair loop from pair number k on, q the local array qualities
RECURSIVE PenalisePairs(_, _, _)
PenalisePairs(q, d, k) ==
    IF k > Len(AnchorPairs) THEN q
    ELSE LET i == AnchorPairs[k][1]
             j == AnchorPairs[k][2]
         IN  PenalisePairs(IF PairViolates(d, i, j)
                           THEN [q EXCEPT ![i] = RMul(@, Half), ![j] = RMul(@, Half)]
                           ELSE q,
                           d, k + 1)

\* a plausible slip: only the first anchor of a violating pair is penalised
RECURSIVE PenaliseFirst(_, _, _)
PenaliseFirst(q, d, k) ==
    IF k > Len(AnchorPairs) THEN q
    ELSE LET i == AnchorPairs[k][1]
             j == AnchorPairs[k][2]
         IN  PenaliseFirst(IF PairViolates(d, i, j)
                           THEN [q EXCEPT ![i] = RMul(@, Half)]
                           ELSE q,
                           d, k + 1)

detectInconsistentMeasurements_firstOnly(d) ==
    PenaliseFirst([i \in 0 .. 3 |-> RInt(1)], d, 1)

\* a plausible slip: the measurements of a violating pair are rejected
detectInconsistentMeasurements_rejects(d) ==
    [i \in 0 .. 3 |->
        IF \E j \in (0 .. 3) \ {i} : PairViolates(d, i, j) THEN RInt(0) ELSE RInt(1)]

\* detectInconsistentMeasurements: the values it leaves in quality_a0..quality_a3
detectInconsistentMeasurements(d) ==
    PenalisePairs([i \in 0 .. 3 |-> RInt(1)], d, 1)

\* the three triplets calculatePosition solves
RobustTriplets == {<<0, 1, 2>>, <<0, 1, 3>>, <<0, 2, 3>>}

\* one triplet of calculatePosition: valid is |den| > 0.000001 (den is an integer here)
SolveWeighted(d, q, t) ==
    LET e == TripletSystem(anchor_x, anchor_y, d, t[1], t[2], t[3])
        den == e.A1 * e.B2 - e.B1 * e.A2
    IN  IF Abs(den) > 0
        THEN [valid |-> TRUE,
              x |-> Rat(e.C1 * e.B2 - e.C2 * e.B1, den),
              y |-> Rat(e.A1 * e.C2 - e.C1 * e.A2, den),
              weight |-> RMul(RMul(q[t[1]], q[t[2]]), q[t[3]])]
        ELSE [valid |-> FALSE, x |-> RInt(0), y |-> RInt(0),
              weight |-> RMul(RMul(q[t[1]], q[t[2]]), q[t[3]])]

RECURSIVE WeightedSum(_, _, _, _)
WeightedSum(T, d, q, what) ==
    IF T = {} THEN RInt(0)
    ELSE LET t == CHOOSE u \in T : TRUE
             s == SolveWeighted(d, q, t)
             term == IF ~s.valid THEN RInt(0)
                     ELSE IF what = "x" THEN RMul(s.x, s.weight)
                     ELSE IF what = "y" THEN RMul(s.y, s.weight)
                     ELSE s.weight
         IN  RAdd(term, WeightedSum(T \ {t}, d, q, what))

\* a plausible slip: the plain average, the weights left out
WeightedPosition_unweighted(d, q) ==
    LET S == {t \in RobustTriplets : SolveWeighted(d, q, t).valid}
        sx == WeightedSum(RobustTriplets, d, [i \in 0 .. 3 |-> RInt(1)], "x")
        sy == WeightedSum(RobustTriplets, d, [i \in 0 .. 3 |-> RInt(1)], "y")
    IN  IF S = {} THEN NoCycle
        ELSE [tried |-> 3, validSolutions |-> Cardinality(S),
              rawX |-> RDiv(sx, RInt(Cardinality(S))),
              rawY |-> RDiv(sy, RInt(Cardinality(S))),
              accepted |-> TRUE]

\* the weighted average of calculatePosition: its locals rawX, rawY
WeightedPosition(d, q) ==
    LET v == Cardinality({t \in RobustTriplets : SolveWeighted(d, q, t).valid})
        totalWeight == WeightedSum(RobustTriplets, d, q, "w")
        sx == WeightedSum(RobustTriplets, d, q, "x")
        sy == WeightedSum(RobustTriplets, d, q, "y")
    IN  IF v = 0 THEN NoCycle
        ELSE [tried |-> 3, validSolutions |-> v,
              rawX |-> IF RLt(RInt(0), totalWeight) THEN RDiv(sx, totalWeight) ELSE sx,
              rawY |-> IF RLt(RInt(0), totalWeight) THEN RDiv(sy, totalWeight) ELSE sy,
              accepted |-> TRUE]

\* a plausible slip: the gain computed as r / (p + r)
KalmanAxis_gainSwapped(x, p, raw) ==
    LET p1 == p + kalman_q
        k == MulDiv(FixedOne, kalman_r, p1 + kalman_r)
    IN  <<x + MulDiv(k, raw - x, FixedOne), MulDiv(FixedOne - k, p1, FixedOne)>>

\* a plausible slip: the error estimate is not updated after the prediction
KalmanAxis_errorKept(x, p, raw) ==
    LET p1 == p + kalman_q
        k == MulDiv(FixedOne, p1, p1 + kalman_r)
    IN  <<x + MulDiv(k, raw - x, FixedOne), p1>>

\* one axis of the Kalman filter of calculatePosition: <<estimate, error estimate>>
KalmanAxis(x, p, raw) ==
    LET p1 == p + kalman_q
        k == MulDiv(FixedOne, p1, p1 + kalman_r)
    IN  <<x + MulDiv(k, raw - x, FixedOne), MulDiv(FixedOne - k, p1, FixedOne)>>

\* a plausible slip: the Y axis updated with the X measurement
KalmanUpdate_sameRaw(st, rx, ry) ==
    LET ax == KalmanAxis(st[1], st[3], rx)
        ay == KalmanAxis(st[2], st[4], rx)
    IN  <<ax[1], ay[1], ax[2], ay[2]>>

\* the filter state after one update with the raw position (rx, ry)
KalmanUpdate(st, rx, ry) ==
    LET ax == KalmanAxis(st[1], st[3], rx)
        ay == KalmanAxis(st[2], st[4], ry)
    IN  <<ax[1], ay[1], ax[2], ay[2]>>

\* the four assignments that end the filter block
KalmanAssign(st) ==
    /\ kalman_x' = st[1]
    /\ kalman_y' = st[2]
    /\ kalman_p_x' = st[3]
    /\ kalman_p_y' = st[4]

\* calculatePosition of the sketch on the distances d just stored
calculatePosition_r(d) ==
    IF \E i \in 0 .. 3 : d[i] <= 0
    THEN /\ cycle' = NoCycle
         /\ UNCHANGED <<quality_a, kalmanVars, positionX, positionY, updates>>
    ELSE /\ quality_a' = detectInconsistentMeasurements(d)
         /\ cycle' = WeightedPosition(d, quality_a')
         /\ IF cycle'.validSolutions = 0
            THEN UNCHANGED <<kalmanVars, positionX, positionY, updates>>
            ELSE /\ KalmanAssign(KalmanUpdate(kalmanVars, ToFixed(cycle'.rawX),
                                              ToFixed(cycle'.rawY)))
                 /\ positionX' = kalman_x'
                 /\ positionY' = kalman_y'
                 /\ updates' = updates + 1

\* the value lists the sketch's parser is given
RobustTags == {<<190, 300>>, <<100, 200>>, <<0, 300>>, <<-5, 300>>}

RobustExact(t) ==
    [i \in 1 .. 4 |->
        Token(calculateDistance(t[1], t[2], anchor_x[i - 1], anchor_y[i - 1]))]

Responses_r ==
    {RobustExact(t) : t \in RobustTags}
      \cup {[i \in 1 .. 4 |-> Token(v[i])] :
               v \in {<<10000, 422500, 422500, 10000>>, <<100, 90000, 90000, 90000>>}}
      \cup {[RobustExact(<<190, 300>>) EXCEPT ![1] = Token(0)],
            [RobustExact(<<100, 200>>) EXCEPT ![4] = Token(-1)],
            SubSeq(RobustExact(<<190, 300>>), 1, 2),
            [RobustExact(<<190, 300>>) EXCEPT ![2] = LongToken]}

\* parseRangeData of the sketch: the local array starts at 0, 0, 0, 0
parseRangeData_r(vals) ==
    /\ cycles < MaxRobustCycles
    /\ dist_to_a' = [i \in 0 .. 3 |->
                        IF i < Len(vals) /\ vals[i + 1].fits THEN vals[i + 1].value ELSE 0]
    /\ calculatePosition_r(dist_to_a')
    /\ cycles' = cycles + 1
    /\ lastOp' = "parseRangeData"
    /\ UNCHANGED <<tagVars_cfg, meas, otherVars>>

\* a plausible slip: the error estimates are not reset
resetKalmanFilter_keepsCov ==
    /\ kalman_x' = Fixed(190)
    /\ kalman_y' = Fixed(300)
    /\ UNCHANGED <<kalman_p_x, kalman_p_y>>
    /\ updates' = 0
    /\ lastOp' = "resetKalmanFilter"
    /\ UNCHANGED <<tagVars_cfg, cycle, cycles, dist_to_a, quality_a, positionX, positionY,
                   meas, otherVars>>

\* resetKalmanFilter (the command "reset")
resetKalmanFilter ==
    /\ kalman_x' = Fixed(190)
    /\ kalman_y' = Fixed(300)
    /\ kalman_p_x' = Fixed(100)
    /\ kalman_p_y' = Fixed(100)
    /\ updates' = 0
    /\ lastOp' = "resetKalmanFilter"
    /\ UNCHANGED <<tagVars_cfg, cycle, cycles, dist_to_a, quality_a, positionX, positionY,
                   meas, otherVars>>

\* the sketch after setup(): the MaUWB_TAG object is not part of it
TagIdle ==
    /\ numAnchors = 4
    /\ anchorX = AnchorArray(4, DefaultX, DefaultX)
    /\ anchorY = AnchorArray(4, DefaultY, DefaultY)
    /\ distances = [i \in AnchorIdx |-> 0]
    /\ currentX = RInt(0)
    /\ currentY = RInt(0)
    /\ positionXHistory = [i \in HistoryIdx |-> RInt(0)]
    /\ positionYHistory = [i \in HistoryIdx |-> RInt(0)]
    /\ positionHistoryIndex = 0
    /\ positionHistoryFilled = FALSE
    /\ positionHistoryLength = 1
    /\ cycle = NoCycle
    /\ cycles = 0
    /\ lastOp = "init"

Init_r ==
    /\ TagIdle
    /\ RobustStartup

Next_r ==
    \/ \E vals \in Responses_r : parseRangeData_r(vals)
    \/ resetKalmanFilter

SpecRobust == Init_r /\ [][Next_r]_vars

----------------------------------------------------------------------------
(* The Kalman filter of calculatePosition run on its own: the same raw     *)
(* measurement fed at every update                                         *)

\* raw measurements in the anchor rectangle
Measurements == {0, 190, 380} \X {0, 300, 600}

Init_k ==
    /\ TagIdle
    /\ dist_to_a = [i \in 0 .. 3 |-> 0]
    /\ quality_a = [i \in 0 .. 3 |-> RInt(1)]
    /\ kalman_x = KalmanStartup[1]
    /\ kalman_y = KalmanStartup[2]
    /\ kalman_p_x = KalmanStartup[3]
    /\ kalman_p_y = KalmanStartup[4]
    /\ positionX = 0
    /\ positionY = 0
    /\ updates = 0
    /\ meas \in Measurements
    /\ OthersIdle

\* the filter block of calculatePosition with rawX, rawY = meas
KalmanFilterStep ==
    /\ updates < MaxUpdates
    /\ KalmanAssign(KalmanUpdate(kalmanVars, Fixed(meas[1]), Fixed(meas[2])))
    /\ positionX' = kalman_x'
    /\ positionY' = kalman_y'
    /\ updates' = updates + 1
    /\ lastOp' = "KalmanFilterStep"
    /\ UNCHANGED <<tagVars_cfg, cycle, cycles, dist_to_a, quality_a, meas, otherVars>>

Next_k ==
    \/ KalmanFilterStep
    \/ resetKalmanFilter

SpecKalman == Init_k /\ [][Next_k]_vars

----------------------------------------------------------------------------
(* Properties of the boundary check *)

MaxOf(S) == CHOOSE m \in S : \A v \in S : v <= m

\* the bounding rectangle of the configured layout
MaxAnchorX == MaxOf({anchorX[i] : i \in 0 .. numAnchors - 1})
MaxAnchorY == MaxOf({anchorY[i] : i \in 0 .. numAnchors - 1})

InLayoutRectangle(x, y) ==
    /\ RLe(RInt(0), x) /\ RLe(x, RInt(MaxAnchorX))
    /\ RLe(RInt(0), y) /\ RLe(y, RInt(MaxAnchorY))

\* C5 - Boundary rejection: a cycle accepts its result (stores it, passes it
\* on) only if the result lies in the rectangle [0, max anchor x] by
\* [0, max anchor y] of the configured layout.
C5_BoundaryRejection ==
    (lastOp = "parseRangeData" /\ cycle.accepted)
        => InLayoutRectangle(cycle.rawX, cycle.rawY)

----------------------------------------------------------------------------
(* Properties of the robust multilateration sketch *)

\* the anchors with a measurement in the distances last parsed
UsableAnchors == {i \in 0 .. 3 : dist_to_a[i] > 0}

NonCollinear(i, j, k) ==
    (anchor_x[j] - anchor_x[i]) * (anchor_y[k] - anchor_y[i])
        # (anchor_x[k] - anchor_x[i]) * (anchor_y[j] - anchor_y[i])

HasUsableTriangle ==
    \E i, j, k \in UsableAnchors : i < j /\ j < k /\ NonCollinear(i, j, k)

\* C3 - An anchor without a measurement is only left out: a cycle in which
\* three anchors that are not collinear have a distance > 0 produces a
\* position estimate.
C3_MissingAnchorExcluded ==
    (lastOp = "parseRangeData" /\ HasUsableTriangle) => cycle.validSolutions > 0

\* the rectangle [0, max anchor x] by [0, max anchor y] of the sketch's layout
InAnchorRectangle(x, y) ==
    /\ RLe(RInt(0), x) /\ RLe(x, RInt(MaxOf({anchor_x[i] : i \in 0 .. 3})))
    /\ RLe(RInt(0), y) /\ RLe(y, RInt(MaxOf({anchor_y[i] : i \in 0 .. 3})))

\* the raw estimate of the last cycle exists and lies in the rectangle
RawValid ==
    /\ cycle.validSolutions > 0
    /\ InAnchorRectangle(cycle.rawX, cycle.rawY)

\* C6 - Filter hold on invalid: a cycle whose raw estimate is missing or
\* lies outside the anchor rectangle leaves kalman_x, kalman_y, kalman_p_x
\* and kalman_p_y as they were.
C6_FilterHoldOnInvalid ==
    [][(lastOp' = "parseRangeData" /\ ~RawValid') => UNCHANGED kalmanVars]_vars

\* the pairs of anchors whose distances break the triangle inequality
ViolatingPairs(d) ==
    {p \in (0 .. 3) \X (0 .. 3) : p[1] < p[2] /\ PairViolates(d, p[1], p[2])}

Violations(d, i) == Cardinality({p \in ViolatingPairs(d) : p[1] = i \/ p[2] = i})

HalfPow(n) == <<1, 2 ^ n>>

\* the last cycle ran detectInconsistentMeasurements
DetectionRan == lastOp = "parseRangeData" /\ UsableAnchors = 0 .. 3

\* C7 - Consistency down-weighting: after a detection pass the quality of
\* each anchor is 1/2 to the power of the number of violating pairs it
\* belongs to; with the pair (0, 3) as the only violation the qualities are
\* 1/2, 1, 1, 1/2.
C7_ConsistencyDownWeighting ==
    DetectionRan =>
        /\ \A i \in 0 .. 3 : quality_a[i] = HalfPow(Violations(dist_to_a, i))
        /\ ViolatingPairs(dist_to_a) = {<<0, 3>>}
             => quality_a = [j \in 0 .. 3 |-> IF j \in {0, 3} THEN Half ELSE RInt(1)]

C7_Witness ==
    /\ DetectionRan
    /\ ViolatingPairs(dist_to_a) = {<<0, 3>>}
    /\ quality_a[0] = Half
    /\ quality_a[1] = RInt(1)

\* C8 - Quality does not persist: after every cycle the qualities are those
\* of the cycle's own distance vector, 1 for every anchor when the cycle ran
\* no detection.
C8_QualityNotPersistent ==
    lastOp = "parseRangeData" =>
        quality_a = IF UsableAnchors = 0 .. 3
                    THEN [i \in 0 .. 3 |-> HalfPow(Violations(dist_to_a, i))]
                    ELSE [i \in 0 .. 3 |-> RInt(1)]

----------------------------------------------------------------------------
(* Properties of the Kalman filter *)

\* the states a filter passes through when it is updated n >= 1 times with
\* measurement m, starting from state st
RECURSIVE Runs(_, _, _)
Runs(st, m, n) ==
    IF n = 1 THEN <<KalmanUpdate(st, Fixed(m[1]), Fixed(m[2]))>>
    ELSE LET first == Runs(st, m, n \div 2)
         IN  first \o Runs(first[Len(first)], m, n - n \div 2)

\* the state of a filter started afresh and updated n times with measurement m
FreshRun(m, n) == IF n = 0 THEN KalmanStartup ELSE Runs(KalmanStartup, m, n)[n]

\* C9 - Filter reset: resetKalmanFilter leaves the startup state whatever
\* came before, and the filter state after any number of updates that follow
\* a reset is the state of a freshly started filter after the same updates.
C9_FilterReset ==
    /\ lastOp = "resetKalmanFilter" => kalmanVars = KalmanStartup
    /\ kalmanVars = FreshRun(meas, updates)

C9_Witness ==
    /\ lastOp = "resetKalmanFilter"
    /\ positionX # 0
    /\ positionX # kalman_x
    /\ kalmanVars = KalmanStartup

\* both estimates are within tol (fixed point) of the measurement
EstimateWithin(tol) ==
    /\ Abs(kalman_x - Fixed(meas[1])) <= tol
    /\ Abs(kalman_y - Fixed(meas[2])) <= tol

----------------------------------------------------------------------------
(* The position test sketch: setup() computes the exact distances of the   *)
(* tag at (190, 300), estimates, multiplies each distance by a factor and  *)
(* estimates again. In this sketch dist_to_a[i] holds the square of        *)
(* dist_to_a<i> as a fraction, positionX and positionY are fractions.      *)

\* the factors a distance is multiplied by, in percent
NoiseFactors == {95, 97, 100, 103, 105}

\* tagX, tagY of setup()
TestTag == <<190, 300>>

\* the triplets in the order calculatePosition solves them
TestTriplets == <<<<0, 1, 2>>, <<0, 1, 3>>, <<0, 2, 3>>>>

\* one triplet as the sketches solve it, for anchors at (ax[i], ay[i]) and the
\* squared distances q: A, B, C and D, E, F are the locals of calculatePosition
SolveTriplet(ax, ay, q, t) ==
    LET a1 == t[1]
        a2 == t[2]
        a3 == t[3]
        A == 2 * (ax[a2] - ax[a1])
        B == 2 * (ay[a2] - ay[a1])
        C == RAdd(RSub(q[a1], q[a2]),
                  RInt(ax[a2] * ax[a2] - ax[a1] * ax[a1]
                       + ay[a2] * ay[a2] - ay[a1] * ay[a1]))
        D == 2 * (ax[a3] - ax[a2])
        E == 2 * (ay[a3] - ay[a2])
        F == RAdd(RSub(q[a2], q[a3]),
                  RInt(ax[a3] * ax[a3] - ax[a2] * ax[a2]
                       + ay[a3] * ay[a3] - ay[a2] * ay[a2]))
        den == A * E - B * D
    IN  IF Abs(den) > 0
        THEN [valid |-> TRUE,
              x |-> RSub(RMul(C, Rat(E, den)), RMul(F, Rat(B, den))),
              y |-> RSub(RMul(F, Rat(A, den)), RMul(C, Rat(D, den)))]
        ELSE [valid |-> FALSE, x |-> RInt(0), y |-> RInt(0)]

\* one triplet of the test sketch's calculatePosition
TestTriplet(q, t) == SolveTriplet(anchor_x, anchor_y, q, t)

\* a plausible slip: only the first triplet is used
TestPosition_firstTriplet(q) ==
    LET s == TestTriplet(q, TestTriplets[1])
    IN  [validSolutions |-> IF s.valid THEN 1 ELSE 0, x |-> s.x, y |-> s.y]

\* the average calculatePosition stores: x and y are its locals after the
\* division by validSolutions
TestPosition(q) ==
    LET s == [k \in 1 .. 3 |-> TestTriplet(q, TestTriplets[k])]
        v == Cardinality({k \in 1 .. 3 : s[k].valid})
        sx == RAdd(RAdd(s[1].x, s[2].x), s[3].x)
        sy == RAdd(RAdd(s[1].y, s[2].y), s[3].y)
    IN  IF v = 0 THEN [validSolutions |-> 0, x |-> RInt(0), y |-> RInt(0)]
        ELSE [validSolutions |-> v, x |-> RDiv(sx, RInt(v)), y |-> RDiv(sy, RInt(v))]

\* setup(): dist_to_a<i> = calculateDistance(tagX, tagY, anchor_x[i], anchor_y[i])
syntheticDistances ==
    /\ lastOp = "init"
    /\ dist_to_a' = [i \in 0 .. 3 |->
                        RInt(calculateDistance(TestTag[1], TestTag[2],
                                               anchor_x[i], anchor_y[i]))]
    /\ lastOp' = "syntheticDistances"
    /\ UNCHANGED <<tagVars, cycles, quality_a, kalmanVars, positionX, positionY,
                   updates, meas, otherVars>>

\* calculatePosition of the sketch
calculatePosition_t ==
    /\ lastOp \in {"syntheticDistances", "addNoise"}
    /\ IF \E i \in 0 .. 3 : RLe(dist_to_a[i], RInt(0))
       THEN UNCHANGED <<positionX, positionY>>
       ELSE LET p == TestPosition(dist_to_a)
            IN  IF p.validSolutions = 0
                THEN UNCHANGED <<positionX, positionY>>
                ELSE positionX' = p.x /\ positionY' = p.y
    /\ cycles' = cycles + 1
    /\ lastOp' = "calculatePosition"
    /\ UNCHANGED <<tagVars, dist_to_a, quality_a, kalmanVars, updates, meas, otherVars>>

\* setup(): dist_to_a<i> *= factor
addNoise ==
    /\ lastOp = "calculatePosition"
    /\ cycles = 1
    /\ dist_to_a' = [i \in 0 .. 3 |->
                        RMul(dist_to_a[i], Rat(noise[i] * noise[i], 100 * 100))]
    /\ lastOp' = "addNoise"
    /\ UNCHANGED <<tagVars, cycles, quality_a, kalmanVars, positionX, positionY,
                   updates, meas, otherVars>>

Init_t ==
    /\ TagIdle
    /\ dist_to_a = [i \in 0 .. 3 |-> RInt(0)]
    /\ quality_a = [i \in 0 .. 3 |-> RInt(1)]
    /\ kalman_x = KalmanStartup[1]
    /\ kalman_y = KalmanStartup[2]
    /\ kalman_p_x = KalmanStartup[3]
    /\ kalman_p_y = KalmanStartup[4]
    /\ positionX = RInt(0)
    /\ positionY = RInt(0)
    /\ updates = 0
    /\ meas = <<0, 0>>
    /\ noise \in [0 .. 3 -> NoiseFactors]
    /\ rawLog = <<>>
    /\ calls = 0
    /\ ToolsIdle

Next_t ==
    \/ syntheticDistances
    \/ calculatePosition_t
    \/ addNoise

SpecTest == Init_t /\ [][Next_t]_vars

\* |v - c| in hundredths of a cm, rounded to the nearest
Deviation(v, c) == Abs(MulDiv(100, v[1] - c * v[2], v[2]))

\* square of the distance from (positionX, positionY) to the tag, in (cm / 100)^2
TestErrorSquared ==
    Deviation(positionX, TestTag[1]) * Deviation(positionX, TestTag[1])
        + Deviation(positionY, TestTag[2]) * Deviation(positionY, TestTag[2])

\* square of 5% of the room diagonal, in (cm / 100)^2
ToleranceSquared == 25 * (380 * 380 + 600 * 600)

\* C11 - Noise tolerance: with each exact distance of the tag at (190, 300)
\* multiplied by a factor between 0.95 and 1.05, the estimate lies within 5%
\* of the room diagonal of (190, 300).
C11_NoiseTolerance ==
    (lastOp = "calculatePosition" /\ cycles = 2) => TestErrorSquared <= ToleranceSquared

C11_Witness ==
    /\ lastOp = "calculatePosition"
    /\ cycles = 2
    /\ noise = [i \in 0 .. 3 |-> <<105, 105, 95, 95>>[i + 1]]
    /\ TestErrorSquared > 3300 * 3300
    /\ TestErrorSquared <= ToleranceSquared

----------------------------------------------------------------------------
\* the usable triplets of non-collinear anchors
NonDegenerateTriplets ==
    {t \in UsableTriplets(numAnchors, distances) : ~Collinear(t[1], t[2], t[3])}

\* C12 - All triplets averaged: an accepted cycle of MaUWB_TAG has solved
\* every unordered triplet of usable anchors, and the position it stores is
\* the average of the solutions of all non-degenerate ones.
C12_AllTripletsAveraged ==
    (lastOp = "parseRangeData" /\ cycle.accepted)
    => /\ cycle.tried = Cardinality(UsableTriplets(numAnchors, distances))
       /\ cycle.validSolutions = Cardinality(NonDegenerateTriplets)
       /\ cycle.rawX = RDiv(SumSolutions(NonDegenerateTriplets, anchorX, anchorY,
                                         distances, "x"),
                            RInt(Cardinality(NonDegenerateTriplets)))
       /\ cycle.rawY = RDiv(SumSolutions(NonDegenerateTriplets, anchorX, anchorY,
                                         distances, "y"),
                            RInt(Cardinality(NonDegenerateTriplets)))

----------------------------------------------------------------------------
(* MaUWB_TAG with configuration calls between the measurement cycles *)

MaxCalls == 2
MaxConfigCycles == 4

\* arguments of setPositionHistoryLength (a uint8_t)
HistoryLengths == {0, 1, 2, 3, 10, 11}

\* a plausible slip: the ring index and the filled flag survive the call
setPositionHistoryLength_keepsIndex(length) ==
    /\ calls < MaxCalls
    /\ IF length > 0 /\ length <= MAX_HISTORY
       THEN /\ positionHistoryLength' = length
            /\ rawLog' = <<>>
            /\ UNCHANGED <<positionHistoryIndex, positionHistoryFilled>>
       ELSE UNCHANGED <<positionHistoryLength, positionHistoryIndex,
                        positionHistoryFilled, rawLog>>
    /\ calls' = calls + 1
    /\ lastOp' = "setPositionHistoryLength"
    /\ UNCHANGED <<numAnchors, anchorX, anchorY, distances, currentX, currentY,
                   positionXHistory, positionYHistory, cycle, cycles,
                   dist_to_a, quality_a, kalmanVars, positionX, positionY,
                   updates, meas, noise, toolVars>>

\* MaUWB_TAG::setPositionHistoryLength(length)
setPositionHistoryLength(length) ==
    /\ calls < MaxCalls
    /\ IF length > 0 /\ length <= MAX_HISTORY
       THEN /\ positionHistoryLength' = length
            /\ positionHistoryIndex' = 0
            /\ positionHistoryFilled' = FALSE
            /\ rawLog' = <<>>
       ELSE UNCHANGED <<positionHistoryLength, positionHistoryIndex,
                        positionHistoryFilled, rawLog>>
    /\ calls' = calls + 1
    /\ lastOp' = "setPositionHistoryLength"
    /\ UNCHANGED <<numAnchors, anchorX, anchorY, distances, currentX, currentY,
                   positionXHistory, positionYHistory, cycle, cycles,
                   dist_to_a, quality_a, kalmanVars, positionX, positionY,
                   updates, meas, noise, toolVars>>

\* the responses of the runs with configuration calls: the exact distances of
\* two points in the room and of one outside it
ConfigResponses ==
    {[i \in 1 .. 4 |-> Token(calculateDistance(t[1], t[2], DefaultX[i], DefaultY[i]))] :
        t \in {<<100, 200>>, <<190, 300>>, <<-5, 300>>}}

\* MaUWB_TAG::parseRangeData, the accepted raw position recorded
parseRangeData_c(vals) ==
    /\ cycles < MaxConfigCycles
    /\ distances' = [i \in AnchorIdx |->
                        IF i < numAnchors /\ i < Len(vals) /\ vals[i + 1].fits
                        THEN vals[i + 1].value ELSE distances[i]]
    /\ calculatePosition(distances')
    /\ rawLog' = IF cycle'.accepted
                 THEN Append(rawLog, <<cycle'.rawX, cycle'.rawY>>)
                 ELSE rawLog
    /\ cycles' = cycles + 1
    /\ lastOp' = "parseRangeData"
    /\ UNCHANGED <<numAnchors, anchorX, anchorY, positionHistoryLength,
                   dist_to_a, quality_a, kalmanVars, positionX, positionY,
                   updates, meas, noise, calls, toolVars>>

\* arguments of setAnchorCount (a uint8_t)
AnchorCounts == {0, 2, 3, 4, 10, 11}

\* MaUWB_TAG::setAnchorCount(count)
setAnchorCount(count) ==
    /\ calls < MaxCalls
    /\ numAnchors' = IF count <= MAX_ANCHORS THEN count ELSE numAnchors
    /\ calls' = calls + 1
    /\ lastOp' = "setAnchorCount"
    /\ UNCHANGED <<anchorX, anchorY, distances, currentX, currentY,
                   positionXHistory, positionYHistory, positionHistoryIndex,
                   positionHistoryFilled, positionHistoryLength, cycle, cycles,
                   dist_to_a, quality_a, kalmanVars, positionX, positionY,
                   updates, meas, noise, rawLog, toolVars>>

Init_c == TagIdle /\ RobustStartup

Next_c ==
    \/ \E length \in HistoryLengths : setPositionHistoryLength(length)
    \/ \E count \in AnchorCounts : setAnchorCount(count)
    \/ \E vals \in ConfigResponses : parseRangeData_c(vals)

SpecConfig == Init_c /\ [][Next_c]_vars

\* the sum of coordinate c (1 for x, 2 for y) of the last k entries of log
RECURSIVE SumLast(_, _, _)
SumLast(log, k, c) ==
    IF k = 0 THEN RInt(0)
    ELSE RAdd(log[Len(log)][c], SumLast(SubSeq(log, 1, Len(log) - 1), k - 1, c))

Min(a, b) == IF a < b THEN a ELSE b

\* the mean of coordinate c of the last min(m, n) accepted raw positions
MeanOfLast(c) ==
    LET k == Min(Len(rawLog), positionHistoryLength)
    IN  RDiv(SumLast(rawLog, k, c), RInt(k))

----------------------------------------------------------------------------
\* MaUWB_TAG::hasValidPosition
hasValidPosition == RLt(RInt(0), currentX) \/ RLt(RInt(0), currentY)

\* C14 - Position validity check: hasValidPosition() is false as long as no
\* cycle has produced an accepted position and true after every cycle that
\* produced one, wherever in the boundary rectangle that position lies.
C14_ValidityCheck ==
    /\ (~positionHistoryFilled /\ positionHistoryIndex = 0) => ~hasValidPosition
    /\ (lastOp = "parseRangeData" /\ cycle.accepted) => hasValidPosition

----------------------------------------------------------------------------
\* C15 - Anchor count invariant: whatever setAnchorCount calls were made, the
\* configured anchor count is at least 3 and at most 10.
C15_AnchorCountRange == 3 <= numAnchors /\ numAnchors <= MAX_ANCHORS

----------------------------------------------------------------------------
(* The calibration tool: readings of one anchor against a target distance. *)
(* averageRange and errorPercentage are fractions.                         *)

maxReadings == 20
MaxCalReadings == 3

\* distances the anchor reports (cm) and target distances typed in
ReadingValues == {700, 750, 790, 1000}
TargetValues == {750, 1000}

RECURSIVE SumReadings(_)
SumReadings(rs) ==
    IF rs = <<>> THEN 0 ELSE rs[1] + SumReadings(Tail(rs))

\* calculateAverage()
calculateAverage(rs) ==
    IF Len(rs) = 0 THEN RInt(0) ELSE Rat(SumReadings(rs), Len(rs))

\* calculateError()
calculateError(avg, target) ==
    IF avg = RInt(0) THEN RInt(0)
    ELSE RMul(RDiv(RSub(avg, RInt(target)), RInt(target)), RInt(100))

\* Math.abs(errorPercentage) < 5
ErrorBelowFive(err) == RLt(RInt(-5), err) /\ RLt(err, RInt(5))

\* updateReadingsDisplay(): the line it appends to errorDiv; with no readings
\* it returns before touching errorDiv
updateReadingsDisplay(rs, err, shown) ==
    IF Len(rs) = 0 THEN shown
    ELSE IF ErrorBelowFive(err) THEN "within acceptable range"
    ELSE "suggestion"

\* addReading(distance): calculateAverage(); updateReadingsDisplay(); calculateError()
addReading(distance) ==
    LET pushed == Append(rangeReadings, distance)
        kept == IF Len(pushed) > maxReadings THEN Tail(pushed) ELSE pushed
    IN  /\ Len(rangeReadings) < MaxCalReadings
        /\ rangeReadings' = kept
        /\ averageRange' = calculateAverage(kept)
        /\ notice' = updateReadingsDisplay(kept, errorPercentage, notice)
        /\ errorPercentage' = calculateError(averageRange', targetDistance)
        /\ lastOp' = "addReading"
        /\ UNCHANGED <<tagVars, cycles, dist_to_a, quality_a, kalmanVars, positionX,
                       positionY, updates, meas, noise, rawLog, calls, targetDistance, vizVars,
                       moreVars>>

\* updateTargetDistance()
updateTargetDistance(target) ==
    /\ targetDistance' = target
    /\ errorPercentage' = calculateError(averageRange, target)
    /\ lastOp' = "updateTargetDistance"
    /\ UNCHANGED <<tagVars, cycles, dist_to_a, quality_a, kalmanVars, positionX,
                   positionY, updates, meas, noise, rawLog, calls,
                   rangeReadings, averageRange, notice, vizVars, moreVars>>

\* clearReadings()
clearReadings ==
    /\ rangeReadings' = <<>>
    /\ averageRange' = RInt(0)
    /\ errorPercentage' = RInt(0)
    /\ notice' = updateReadingsDisplay(<<>>, RInt(0), notice)
    /\ lastOp' = "clearReadings"
    /\ UNCHANGED <<tagVars, cycles, dist_to_a, quality_a, kalmanVars, positionX,
                   positionY, updates, meas, noise, rawLog, calls, targetDistance, vizVars,
                       moreVars>>

Next_cal ==
    \/ \E distance \in ReadingValues : addReading(distance)
    \/ \E target \in TargetValues : updateTargetDistance(target)
    \/ clearReadings

SpecCalibration == Init_c /\ [][Next_cal]_vars

\* the average of the stored readings is within 5% of the target distance
AverageWithinFivePercent ==
    LET avg == calculateAverage(rangeReadings)
        off == RSub(avg, RInt(targetDistance))
    IN  /\ RLe(RMul(RInt(-20), off), RInt(targetDistance))
        /\ RLe(RMul(RInt(20), off), RInt(targetDistance))

\* C16 - Calibration notice: after a reading is added and the readings
\* display refreshed, 'Calibration within acceptable range' is shown exactly
\* when the average of the stored readings is within 5% of the target
\* distance; otherwise the suggestion is shown.
C16_CalibrationNotice ==
    lastOp = "addReading"
    => /\ notice = "within acceptable range" <=> AverageWithinFivePercent
       /\ notice = "suggestion" <=> ~AverageWithinFivePercent

----------------------------------------------------------------------------
(* The visualizer: one UWB object per tag, fed by processSerialData and     *)
(* recomputed by draw(). A list holds the squares of the reported ranges.   *)

MaxPackets == 3

\* anc[0..3].x, anc[0..3].y after setup()
VizX == [i \in 0 .. 3 |-> <<0, 0, 540, 540>>[i + 1]]
VizY == [i \in 0 .. 3 |-> <<0, 1270, 1270, 0>>[i + 1]]

\* what JavaScript makes of an array entry that is no number, such as "a":
\* every comparison with it is false and all arithmetic on it gives it again
NaN == -1000000

\* range arrays: the exact ranges of (270, 635) and of (100, 200), one with a
\* missing range, one outside the room (at (-50, 635)), one whose first four
\* entries are strings that are no numbers
RangeLists ==
    { <<476125, 476125, 476125, 476125, 0, 0, 0, 0>>,
      <<50000, 1154900, 1338500, 233600, 0, 0, 0, 0>>,
      <<476125, 0, 476125, 476125, 0, 0, 0, 0>>,
      <<405725, 405725, 751325, 751325, 0, 0, 0, 0>>,
      <<NaN, NaN, NaN, NaN, 0, 0, 0, 0>> }

\* the lines received: ids inside and outside 0 .. tag_count - 1, no id, no range
Packets ==
    {[hasId |-> TRUE, id |-> i, hasRange |-> TRUE, range |-> r] :
        i \in {-1, 0, 7, 8}, r \in RangeLists}
      \cup {[hasId |-> FALSE, id |-> 0, hasRange |-> TRUE,
             range |-> <<476125, 476125, 476125, 476125, 0, 0, 0, 0>>],
            [hasId |-> TRUE, id |-> 0, hasRange |-> FALSE, range |-> <<>>]}

\* a plausible slip: an id that is no index is folded into the index range
StoreRange_wrapsId(p) ==
    IF p.hasId /\ p.hasRange
    THEN [tag EXCEPT ![p.id % tag_count] = [@ EXCEPT !.list = p.range,
                                                     !.needsUpdate = TRUE]]
    ELSE tag

\* the body of the try block of processSerialData for the parsed line p; with
\* an id below 0 tag[data.id] is undefined, the assignment throws and the
\* catch block logs the line
StoreRange(p) ==
    IF p.hasId /\ p.hasRange /\ p.id < tag_count /\ p.id \in DOMAIN tag
    THEN [tag EXCEPT ![p.id] = [@ EXCEPT !.list = p.range, !.needsUpdate = TRUE]]
    ELSE tag

\* processSerialData(text) for one complete line
processSerialData(p) ==
    /\ cycles < MaxPackets
    /\ tag' = StoreRange(p)
    /\ packet' = p
    /\ cycles' = cycles + 1
    /\ lastOp' = "processSerialData"
    /\ UNCHANGED <<tagVars, dist_to_a, quality_a, kalmanVars, positionX, positionY,
                   updates, meas, noise, rawLog, calls, calVars, moreVars>>

\* Math.floor of a fraction
Floor(v) == v[1] \div v[2]

\* UWB.cal() of a tag whose needsUpdate is set: the tag afterwards. With an
\* entry that is no number the test d[i] <= 0 is false, the three solutions
\* (their denominators depend on the anchors alone) and their average are NaN,
\* the four comparisons of the boundary filter are false and set_location is
\* called with Math.floor(NaN)
cal(u) ==
    LET d == u.list
        done == [u EXCEPT !.needsUpdate = FALSE]
    IN  IF Len(d) < 4 \/ \E i \in 1 .. 4 : d[i] # NaN /\ d[i] <= 0 THEN done
        ELSE IF \E i \in 1 .. 4 : d[i] = NaN
        THEN [done EXCEPT !.x = NaN, !.y = NaN, !.status = TRUE]
        ELSE LET q == [i \in 0 .. 3 |-> RInt(d[i + 1])]
                 s == [k \in 1 .. 3 |-> SolveTriplet(VizX, VizY, q, TestTriplets[k])]
                 v == Cardinality({k \in 1 .. 3 : s[k].valid})
                 x == RDiv(RAdd(RAdd(s[1].x, s[2].x), s[3].x), RInt(v))
                 y == RDiv(RAdd(RAdd(s[1].y, s[2].y), s[3].y), RInt(v))
             IN  IF v = 0 THEN done
                 ELSE IF \/ RLt(x, RInt(0)) \/ RLt(y, RInt(0))
                         \/ RLt(RInt(VizX[2]), x) \/ RLt(RInt(VizY[1]), y)
                 THEN done
                 ELSE [done EXCEPT !.x = Floor(x), !.y = Floor(y), !.status = TRUE]

\* draw(): "Update all tags that need calculation"
draw ==
    /\ tag' = [i \in DOMAIN tag |-> IF tag[i].needsUpdate THEN cal(tag[i]) ELSE tag[i]]
    /\ lastOp' = "draw"
    /\ UNCHANGED <<tagVars, cycles, dist_to_a, quality_a, kalmanVars, positionX,
                   positionY, updates, meas, noise, rawLog, calls, calVars, packet,
                   moreVars>>

Next_v ==
    \/ \E p \in Packets : processSerialData(p)
    \/ draw

SpecVisualizer == Init_c /\ [][Next_v]_vars

\* the packet names tag i
PacketFor(p, i) == p.hasId /\ p.hasRange /\ p.id = i

\* C17 - Per-tag independence: a packet for tag i changes no other tag, a
\* packet whose id is not a tag index changes no tag, and recomputing the
\* positions changes only the tags that were waiting for it, each from its
\* own list alone.
C17_TagIndependence ==
    [][ /\ lastOp' = "processSerialData"
           => \A j \in DOMAIN tag : ~PacketFor(packet', j) => tag'[j] = tag[j]
        /\ lastOp' = "draw"
           => \A j \in DOMAIN tag :
                 /\ ~tag[j].needsUpdate => tag'[j] = tag[j]
                 /\ \A k \in DOMAIN tag : tag[j] = tag[k] => tag'[j] = tag'[k] ]_vars

\* tag 0 located at (270, 635), then a packet for tag 7 received and tag 7
\* located at (100, 200) with tag 0 as it was
C17_Witness ==
    /\ lastOp = "draw"
    /\ tag[0].status /\ tag[0].x = 270 /\ tag[0].y = 635
    /\ tag[7].status /\ tag[7].x = 100 /\ tag[7].y = 200
    /\ packet.id = 8

----------------------------------------------------------------------------
\* calculatePosition of the TAG_xyPosition sketch for the distances d, up to
\* the boundary check: all four distances needed, anchors 0, 1, 2 solved
\* (in metres there, which changes no exact value); POSITION_HISTORY_LENGTH
\* is 1, so an accepted raw position is the position stored
calculatePosition_xy(d) ==
    LET ax == AnchorArray(4, DefaultX, DefaultX)
        ay == AnchorArray(4, DefaultY, DefaultY)
        s == calculatePositionFromTriplet(ax, ay, d, 0, 1, 2)
        skipped == [accepted |-> FALSE, rawX |-> RInt(0), rawY |-> RInt(0)]
    IN  IF \E i \in 0 .. 3 : d[i] <= 0 THEN skipped
        ELSE IF ~s.ok THEN skipped
        ELSE IF \/ RLt(s.x, RInt(0)) \/ RLt(s.y, RInt(0))
                \/ RLt(RInt(ax[2]), s.x) \/ RLt(RInt(ay[1]), s.y)
        THEN skipped
        ELSE [accepted |-> TRUE, rawX |-> s.x, rawY |-> s.y]

\* C18 - Backward compatibility: in the default layout a cycle of MaUWB_TAG
\* is accepted exactly when the TAG_xyPosition sketch accepts the same four
\* distances, and then both store the same position.
C18_BackwardCompatibility ==
    (lastOp = "parseRangeData" /\ IsDefaultLayout)
    => LET o == calculatePosition_xy(distances)
       IN  /\ cycle.accepted <=> o.accepted
           /\ o.accepted => currentX = o.rawX /\ currentY = o.rawY

----------------------------------------------------------------------------
\* One update of one axis from estimate x and error estimate p with the
\* measurement raw gave x2 and p2: with P' = p + Q and k = P'/(P' + R),
\* x2 - x is k*(raw - x) and p2 is (1 - k)*P', each up to the rounding of the
\* fixed-point model (k is rounded to 1/FixedOne).
AxisUpdated(x, p, raw, x2, p2) ==
    LET p1 == p + kalman_q
    IN  /\ Abs((x2 - x) - MulDiv(p1, raw - x, p1 + kalman_r))
              <= Abs(raw - x) \div FixedOne + 1
        /\ Abs((p1 - p2) - MulDiv(p1, p1, p1 + kalman_r)) <= p1 \div FixedOne + 1

\* C19 - Kalman update step: one update takes each axis from (estimate, P) to
\* (estimate + k*(raw - estimate), (1 - k)*P') with P' = P + Q and
\* k = P'/(P' + R); the X state depends on the X measurements and the
\* earlier X state only, the Y state on the Y side only.
C19_KalmanUpdateStep ==
    /\ [][updates' = updates + 1
            => /\ AxisUpdated(kalman_x, kalman_p_x, Fixed(meas[1]),
                              kalman_x', kalman_p_x')
               /\ AxisUpdated(kalman_y, kalman_p_y, Fixed(meas[2]),
                              kalman_y', kalman_p_y')]_vars
    /\ [](\A m \in Measurements :
             LET other == FreshRun(m, updates)
             IN  /\ m[1] = meas[1] => (kalman_x = other[1] /\ kalman_p_x = other[3])
                 /\ m[2] = meas[2] => (kalman_y = other[2] /\ kalman_p_y = other[4]))

\* three updates with the measurement (380, 0): X has moved up, Y down
C19_Witness ==
    /\ lastOp = "KalmanFilterStep"
    /\ updates = 3
    /\ meas = <<380, 0>>
    /\ kalman_x > Fixed(190) /\ kalman_x < Fixed(380)
    /\ kalman_y < Fixed(300) /\ kalman_y > 0
    /\ kalman_p_x = kalman_p_y

----------------------------------------------------------------------------
\* the product of the qualities of the anchors of triplet t
TripletWeight(t) == RMul(RMul(quality_a[t[1]], quality_a[t[2]]), quality_a[t[3]])

\* the solution of triplet t for the distances of the cycle
TripletSolution(t) == SolveWeighted(dist_to_a, quality_a, t)

\* the sum over the valid triplets of w_t (c = 0), x_t * w_t (1) or y_t * w_t (2)
ValidTripletsSum(c) ==
    LET term(t) == IF ~TripletSolution(t).valid THEN RInt(0)
                   ELSE IF c = 0 THEN TripletWeight(t)
                   ELSE IF c = 1 THEN RMul(TripletSolution(t).x, TripletWeight(t))
                   ELSE RMul(TripletSolution(t).y, TripletWeight(t))
    IN  RAdd(RAdd(term(<<0, 1, 2>>), term(<<0, 1, 3>>)), term(<<0, 2, 3>>))

\* C20 - Weighted combination: the raw position of a cycle with a valid
\* triplet is sum(x_t * w_t) / sum(w_t), sum(y_t * w_t) / sum(w_t) over the
\* valid triplets, w_t the product of the qualities of the three anchors of t.
C20_WeightedCombination ==
    (lastOp = "parseRangeData" /\ cycle.validSolutions > 0)
    => /\ cycle.validSolutions =
             Cardinality({t \in RobustTriplets : TripletSolution(t).valid})
       /\ RLt(RInt(0), ValidTripletsSum(0))
       /\ RMul(cycle.rawX, ValidTripletsSum(0)) = ValidTripletsSum(1)
       /\ RMul(cycle.rawY, ValidTripletsSum(0)) = ValidTripletsSum(2)

\* anchors 0 and 3 down-weighted, the three triplets disagree
C20_Witness ==
    /\ lastOp = "parseRangeData"
    /\ cycle.validSolutions = 3
    /\ TripletWeight(<<0, 1, 2>>) # TripletWeight(<<0, 2, 3>>)
    /\ TripletSolution(<<0, 1, 2>>).y # TripletSolution(<<0, 2, 3>>).y
    /\ RMul(cycle.rawY, ValidTripletsSum(0)) = ValidTripletsSum(2)

\* the values a quality takes: 1 halved once for each of up to three other anchors
QualityLevels == {HalfPow(n) : n \in 0 .. 3}

\* C22 - The consistency checker only downgrades: every anchor quality is 1
\* halved at most three times, so it lies in (0, 1], and in a cycle with a
\* valid triplet every valid triplet's weight and the total weight are > 0.
C22_DowngradeOnly ==
    /\ \A i \in 0 .. 3 :
          /\ quality_a[i] \in QualityLevels
          /\ RLt(RInt(0), quality_a[i]) /\ RLe(quality_a[i], RInt(1))
    /\ (lastOp = "parseRangeData" /\ cycle.validSolutions > 0)
       => /\ \A t \in RobustTriplets :
                TripletSolution(t).valid => RLt(RInt(0), TripletWeight(t))
          /\ RLt(RInt(0), ValidTripletsSum(0))

\* anchor 0 breaks the triangle inequality with each of the other anchors
C22_Witness ==
    /\ DetectionRan
    /\ Violations(dist_to_a, 0) = 3
    /\ quality_a[0] = HalfPow(3)
    /\ cycle.validSolutions = 3
    /\ RLt(RInt(0), ValidTripletsSum(0))

\* the distances of the last cycle are the exact distances of the point t
ExactlyMeasured(t) ==
    \A i \in 0 .. 3 :
        dist_to_a[i] = calculateDistance(t[1], t[2], anchor_x[i], anchor_y[i])

\* C23 - Only impossible combinations are penalised: after a detection pass
\* on the exact distances of a tag in the anchor rectangle, edges included,
\* no anchor pair is flagged and the four qualities are 1.
C23_OnlyImpossibleFlagged ==
    \A t \in RobustTags :
        (DetectionRan /\ InAnchorRectangle(RInt(t[1]), RInt(t[2])) /\ ExactlyMeasured(t))
        => /\ ViolatingPairs(dist_to_a) = {}
           /\ quality_a = [i \in 0 .. 3 |-> RInt(1)]

----------------------------------------------------------------------------
\* the distance array d holds what the value list vals says and nothing else:
\* the value of each configured anchor the list has a parsable field for, no
\* measurement for the other configured anchors
FromResponseAlone(d, vals) ==
    \A i \in 0 .. numAnchors - 1 :
        IF i < Len(vals) /\ vals[i + 1].fits
        THEN d[i] = vals[i + 1].value
        ELSE d[i] <= 0

\* C24 - Distances are fresh per response: the distances an estimation cycle
\* of MaUWB_TAG uses are those of one response alone, an anchor whose value
\* is missing or too long to parse having no measurement (distance <= 0).
C24_FreshDistances ==
    [][lastOp' = "parseRangeData"
         => \E vals \in Responses : FromResponseAlone(distances', vals)]_vars

----------------------------------------------------------------------------
(* The header implementation's parser on the comma fields of a line *)

\* a comma field: a number, or a label such as AN0
Number(v) == [num |-> TRUE, value |-> v]
Label == [num |-> FALSE, value |-> 0]

\* String::toFloat: 0 for a field that does not start with a number
toFloat(f) == IF f.num THEN f.value ELSE 0

\* the fields after "+RANGE_CDS_ALL:" of <tag>,AN0,d0,AN1,d1,AN2,d2,AN3,d3
DocumentedLine(id, d) ==
    <<Number(id), Label, Number(d[1]), Label, Number(d[2]), Label, Number(d[3]),
      Label, Number(d[4])>>

\* the same line without the tag field: AN0,d0,AN1,d1,AN2,d2,AN3,d3
UntaggedLine(d) ==
    <<Label, Number(d[1]), Label, Number(d[2]), Label, Number(d[3]), Label, Number(d[4])>>

\* the distances a line reports: those of a tag, anchor 0 or anchors 1 and 2
\* reported as 0 in some lines
LineValues ==
    {[i \in 1 .. 4 |-> IF (i - 1) \in D THEN 0 ELSE ExactDistance(t, i - 1)] :
        t \in {<<190, 300>>, <<100, 200>>}, D \in {{}, {0}, {1, 2}}}

Lines_h ==
    {DocumentedLine(7, d) : d \in LineValues} \cup {UntaggedLine(d) : d \in LineValues}

\* the fields the loop converts: those that end at an even comma count
EvenFields(fields) == [k \in 1 .. Len(fields) \div 2 |-> toFloat(fields[2 * k])]

\* MaUWB_TAG::parseRangeData of the header on a line with these fields
parseRangeData_l(fields) ==
    /\ StoreValues_h(EvenFields(fields))
    /\ line' = fields
    /\ UNCHANGED <<dist_to_a, quality_a, kalmanVars, positionX, positionY, updates, meas,
                   noise, rawLog, calls, calVars, vizVars, detVars, serialVars>>

Next_l == \E fields \in Lines_h : parseRangeData_l(fields)

SpecHdrLine == Init_h /\ [][Next_l]_vars

\* the line has the documented form
IsDocumented(fields) ==
    /\ Len(fields) = 9
    /\ fields[1].num
    /\ \A i \in 0 .. 3 : ~fields[2 * i + 2].num /\ fields[2 * i + 3].num

\* the distance the line reports for anchor i
LineDistance(fields, i) == toFloat(fields[2 * i + 3])

\* C25 - Header parsing: after parseRangeData on a line of the documented
\* form, distances[i] is the value d_i of the line for every anchor i with
\* d_i > 0, whatever the values of the other anchors.
C25_HeaderLineParsing ==
    (lastOp = "parseRangeData" /\ IsDocumented(line))
    => \A i \in 0 .. 3 :
          LineDistance(line, i) > 0 => distances[i] = LineDistance(line, i)

----------------------------------------------------------------------------
(* The optimized position test: calculateOriginalPosition and              *)
(* calculateOptimizedPosition on the same globals                          *)

\* the distance vectors (squares) the two methods are run on: exact ones, noisy
\* ones, and vectors in which an anchor has no measurement
ComparedDistances ==
    {[i \in 0 .. 3 |-> v[i + 1]] :
        v \in {<<126100, 126100, 126100, 126100>>, <<50000, 170000, 238400, 118400>>,
               <<90000, 90000, 234400, 234400>>, <<10000, 422500, 422500, 10000>>,
               <<100, 90000, 90000, 90000>>, <<0, 126100, 126100, 126100>>,
               <<50000, 170000, 238400, -1>>, <<0, 0, 0, 0>>,
               <<340000, 100000, 16400, 256400>>, <<126100, 0, 126100, 126100>>}}

\* setup() assigning dist_to_a0..dist_to_a3
setDistances(d) ==
    /\ dist_to_a' = d
    /\ lastOp' = "setup"
    /\ UNCHANGED <<tagVars, cycles, quality_a, kalmanVars, positionX, positionY, updates,
                   meas, otherVars>>

\* one triplet (i, j, k) of calculateOriginalPosition: A, B, C, D, E, F and den
OriginalTriplet(d, i, j, k) ==
    LET A == 2 * (anchor_x[j] - anchor_x[i])
        B == 2 * (anchor_y[j] - anchor_y[i])
        C == Abs(d[i]) - Abs(d[j]) - anchor_x[i] * anchor_x[i] + anchor_x[j] * anchor_x[j]
               - anchor_y[i] * anchor_y[i] + anchor_y[j] * anchor_y[j]
        D == 2 * (anchor_x[k] - anchor_x[j])
        E == 2 * (anchor_y[k] - anchor_y[j])
        F == Abs(d[j]) - Abs(d[k]) - anchor_x[j] * anchor_x[j] + anchor_x[k] * anchor_x[k]
               - anchor_y[j] * anchor_y[j] + anchor_y[k] * anchor_y[k]
        den == A * E - B * D
    IN  IF Abs(den) > 0
        THEN [valid |-> TRUE, x |-> Rat(C * E - F * B, den), y |-> Rat(A * F - C * D, den)]
        ELSE [valid |-> FALSE, x |-> RInt(0), y |-> RInt(0)]

\* one triplet of calculateOptimizedPosition, from the precomputed terms
OptimizedTriplet(d, i, j, k) ==
    LET sq(n) == anchor_x[n] * anchor_x[n] + anchor_y[n] * anchor_y[n]
        A_ij == 2 * (anchor_x[j] - anchor_x[i])
        B_ij == 2 * (anchor_y[j] - anchor_y[i])
        C_ij == Abs(d[i]) - Abs(d[j]) - sq(i) + sq(j)
        A_jk == 2 * (anchor_x[k] - anchor_x[j])
        B_jk == 2 * (anchor_y[k] - anchor_y[j])
        C_jk == Abs(d[j]) - Abs(d[k]) - sq(j) + sq(k)
        den == A_ij * B_jk - B_ij * A_jk
    IN  IF Abs(den) > 0
        THEN [valid |-> TRUE, x |-> Rat(C_ij * B_jk - C_jk * B_ij, den),
              y |-> Rat(A_ij * C_jk - C_ij * A_jk, den)]
        ELSE [valid |-> FALSE, x |-> RInt(0), y |-> RInt(0)]

\* the average of the valid ones of three solutions, or the position p kept
AverageOfValid(s1, s2, s3, p) ==
    LET validSolutions == (IF s1.valid THEN 1 ELSE 0) + (IF s2.valid THEN 1 ELSE 0)
                            + (IF s3.valid THEN 1 ELSE 0)
        x == RAdd(RAdd(s1.x, s2.x), s3.x)
        y == RAdd(RAdd(s1.y, s2.y), s3.y)
    IN  IF validSolutions = 0 THEN p
        ELSE <<ToFixed(RDiv(x, RInt(validSolutions))),
               ToFixed(RDiv(y, RInt(validSolutions)))>>

\* positionX, positionY after calculateOriginalPosition
OriginalPosition(d, p) ==
    AverageOfValid(OriginalTriplet(d, 0, 1, 2), OriginalTriplet(d, 0, 1, 3),
                   OriginalTriplet(d, 0, 2, 3), p)

\* positionX, positionY after calculateOptimizedPosition
OptimizedPosition(d, p) ==
    IF \E i \in 0 .. 3 : d[i] <= 0 THEN p
    ELSE AverageOfValid(OptimizedTriplet(d, 0, 1, 2), OptimizedTriplet(d, 0, 1, 3),
                        OptimizedTriplet(d, 0, 2, 3), p)

calculateOriginalPosition ==
    /\ lastOp # "init"
    /\ positionX' = OriginalPosition(dist_to_a, <<positionX, positionY>>)[1]
    /\ positionY' = OriginalPosition(dist_to_a, <<positionX, positionY>>)[2]
    /\ lastOp' = "calculateOriginalPosition"
    /\ UNCHANGED <<tagVars, cycles, dist_to_a, quality_a, kalmanVars, updates, meas,
                   otherVars>>

calculateOptimizedPosition ==
    /\ lastOp # "init"
    /\ positionX' = OptimizedPosition(dist_to_a, <<positionX, positionY>>)[1]
    /\ positionY' = OptimizedPosition(dist_to_a, <<positionX, positionY>>)[2]
    /\ lastOp' = "calculateOptimizedPosition"
    /\ UNCHANGED <<tagVars, cycles, dist_to_a, quality_a, kalmanVars, updates, meas,
                   otherVars>>

Next_o ==
    \/ \E d \in ComparedDistances : setDistances(d)
    \/ calculateOriginalPosition
    \/ calculateOptimizedPosition

SpecOptimized == Init_r /\ [][Next_o]_vars

----------------------------------------------------------------------------
(* The firmware loop and the serial link: MaUWB_TAG::update with          *)
(* processSerialData and requestRangeData. A line is recorded when it is   *)
(* passed to parseRangeData; what parseRangeData does with it is Spec.     *)

MaxLines == 2

\* the bytes '\r' and '\n'; every other byte is the number of its line
CR == -1
NL == 0

\* the n-th line the module reports, and its bytes on the link
LineText(n) == <<n, n>>
LineBytes(n) == LineText(n) \o <<CR, NL>>

\* the loop of processSerialData over the bytes available
RECURSIVE ReadAvailable(_, _, _)
ReadAvailable(bytes, resp, calls_made) ==
    IF bytes = <<>> THEN [response |-> resp, parsed |-> calls_made]
    ELSE LET c == Head(bytes)
         IN  IF c = CR THEN ReadAvailable(Tail(bytes), resp, calls_made)
             ELSE IF c = NL
             THEN IF Len(resp) > 0
                  THEN ReadAvailable(Tail(bytes), <<>>, Append(calls_made, resp))
                  ELSE ReadAvailable(Tail(bytes), resp, calls_made)
             ELSE ReadAvailable(Tail(bytes), Append(resp, c), calls_made)

\* the module reports a line (AT+SETRPT=1, or its answer to a request)
moduleSends ==
    /\ sent < MaxLines
    /\ sent' = sent + 1
    /\ wire' = wire \o LineBytes(sent')
    /\ lastOp' = "moduleSends"
    /\ UNCHANGED <<tagVars, cycles, dist_to_a, quality_a, kalmanVars, positionX,
                   positionY, updates, meas, noise, rawLog, calls, calVars, vizVars,
                   detVars, line, rxBuffer, response, parsed>>

\* the UART receives the next byte
receiveByte ==
    /\ wire # <<>>
    /\ rxBuffer' = Append(rxBuffer, Head(wire))
    /\ wire' = Tail(wire)
    /\ lastOp' = "receiveByte"
    /\ UNCHANGED <<tagVars, cycles, dist_to_a, quality_a, kalmanVars, positionX,
                   positionY, updates, meas, noise, rawLog, calls, calVars, vizVars,
                   detVars, line, response, parsed, sent>>

\* MaUWB_TAG::update. due: refreshRate has passed since the last request;
\* k: the bytes that arrive while sendCommand waits out its 100 ms. sendCommand
\* reads every byte available into its local response, which
\* requestRangeData does not use.
update(due, k) ==
    LET r == ReadAvailable(rxBuffer, response, parsed)
    IN  /\ k <= Len(wire)
        /\ ~due => k = 0
        /\ response' = r.response
        /\ parsed' = r.parsed
        /\ rxBuffer' = <<>>
        /\ wire' = SubSeq(wire, k + 1, Len(wire))
        /\ lastOp' = IF due THEN "requestRangeData" ELSE "update"
        /\ UNCHANGED <<tagVars, cycles, dist_to_a, quality_a, kalmanVars, positionX,
                       positionY, updates, meas, noise, rawLog, calls, calVars, vizVars,
                       detVars, line, sent>>

Next_s ==
    \/ moduleSends
    \/ receiveByte
    \/ \E due \in BOOLEAN, k \in 0 .. 4 * MaxLines : update(due, k)

SpecSerial == Init_c /\ [][Next_s]_vars

\* C27 - No range response is lost: once every byte the module sent has
\* arrived and update has read it, each line the module sent has been passed
\* to parseRangeData exactly once, in order, whatever the interleaving of
\* the arrivals with the requests.
C27_NoResponseLost ==
    (wire = <<>> /\ rxBuffer = <<>>) => parsed = [n \in 1 .. sent |-> LineText(n)]

----------------------------------------------------------------------------
\* the tag u is drawn at a point of the room with integer coordinates
InRoom(u) ==
    /\ u.x # NaN /\ u.y # NaN
    /\ 0 <= u.x /\ u.x <= VizX[2]
    /\ 0 <= u.y /\ u.y <= VizY[1]

\* C28 - Visualizer position invariant: after every packet and every draw
\* frame each tag whose status is true has integer coordinates with
\* 0 <= x <= anchor[2].x and 0 <= y <= anchor[1].y, also after packets whose
\* range is no array of four numbers, and a status that is true stays true.
C28_VisualizerPosition ==
    [][\A j \in DOMAIN tag :
          /\ tag'[j].status => InRoom(tag'[j])
          /\ tag[j].status => tag'[j].status]_vars

----------------------------------------------------------------------------
(* The header implementation's history configuration *)

\* setPositionHistoryLength of the header: only length <= MAX_HISTORY is tested
setPositionHistoryLength_h(length) ==
    /\ calls < MaxCalls
    /\ IF length <= MAX_HISTORY
       THEN /\ positionHistoryLength' = length
            /\ positionHistoryIndex' = 0
            /\ positionHistoryFilled' = FALSE
       ELSE UNCHANGED <<positionHistoryLength, positionHistoryIndex,
                        positionHistoryFilled>>
    /\ calls' = calls + 1
    /\ lastOp' = "setPositionHistoryLength"
    /\ UNCHANGED <<numAnchors, anchorX, anchorY, distances, currentX, currentY,
                   positionXHistory, positionYHistory, cycle, cycles,
                   dist_to_a, quality_a, kalmanVars, positionX, positionY,
                   updates, meas, noise, rawLog, toolVars>>

\* the distances the header parser stores for the values vals
StoredValues_h(vals) ==
    LET pos == SelectSeq(vals, LAMBDA v : v > 0)
    IN  [i \in AnchorIdx |->
            IF i < numAnchors /\ i < Len(pos) THEN pos[i + 1] ELSE distances[i]]

\* the cycle for vals gets as far as updatePositionHistory with a history
\* length of 0
DividesByZero(vals) ==
    /\ positionHistoryLength = 0
    /\ calculatePositionResult_h(numAnchors, anchorX, anchorY, StoredValues_h(vals)).accepted

\* (positionHistoryIndex + 1) % 0 in updatePositionHistory is undefined: the
\* processor raises a divide-by-zero exception and the sketch starts again
\* (the object as constructed), or the remainder instruction returns the
\* dividend and the index just grows
parseRangeData_zero(vals) ==
    LET r == calculatePositionResult_h(numAnchors, anchorX, anchorY, StoredValues_h(vals))
    IN  /\ cycles < MaxHdrCycles
        /\ DividesByZero(vals)
        /\ \/ /\ distances' = [i \in AnchorIdx |-> 0]
              /\ currentX' = RInt(0)
              /\ currentY' = RInt(0)
              /\ positionXHistory' = [i \in HistoryIdx |-> RInt(0)]
              /\ positionYHistory' = [i \in HistoryIdx |-> RInt(0)]
              /\ positionHistoryIndex' = 0
              /\ positionHistoryFilled' = FALSE
              /\ positionHistoryLength' = 5
              /\ cycle' = NoCycle
              /\ lastOp' = "restart"
           \/ /\ distances' = StoredValues_h(vals)
              /\ cycle' = r
              /\ currentX' = r.rawX
              /\ currentY' = r.rawY
              /\ positionXHistory' = [positionXHistory EXCEPT ![positionHistoryIndex] = r.rawX]
              /\ positionYHistory' = [positionYHistory EXCEPT ![positionHistoryIndex] = r.rawY]
              /\ positionHistoryIndex' = positionHistoryIndex + 1
              /\ UNCHANGED <<positionHistoryFilled, positionHistoryLength>>
              /\ lastOp' = "parseRangeData"
        /\ cycles' = cycles + 1
        /\ UNCHANGED <<numAnchors, anchorX, anchorY, robustVars>>

\* parseRangeData of the header on an object whose history length can be 0
parseRangeData_hc(vals) ==
    \/ ~DividesByZero(vals) /\ parseRangeData_h(vals)
    \/ parseRangeData_zero(vals)

Next_hc ==
    \/ \E length \in HistoryLengths : setPositionHistoryLength_h(length)
    \/ \E vals \in LineValues : parseRangeData_hc(vals)

SpecHdrConfig == Init_h /\ [][Next_hc]_vars

\* C29 - History ring buffer: after every step of MaUWB_TAG
\* 1 <= positionHistoryLength <= MAX_HISTORY and
\* 0 <= positionHistoryIndex < positionHistoryLength, and a
\* setPositionHistoryLength call either is accepted (the index is 0, the
\* filled flag false) or changes nothing.
C29_HistoryRingBuffer ==
    [][ /\ 1 <= positionHistoryLength' /\ positionHistoryLength' <= MAX_HISTORY
        /\ 0 <= positionHistoryIndex' /\ positionHistoryIndex' < positionHistoryLength'
        /\ lastOp' = "setPositionHistoryLength"
           => \/ positionHistoryIndex' = 0 /\ ~positionHistoryFilled'
              \/ UNCHANGED tagVars ]_vars

----------------------------------------------------------------------------
\* the gain k_x or k_y of an update that starts with the error estimate p
KalmanGain(p) == MulDiv(FixedOne, p + kalman_q, p + kalman_q + kalman_r)

\* b lies between a and c, ends included
Between(a, b, c) == (a <= b /\ b <= c) \/ (c <= b /\ b <= a)

\* C30 - Kalman state invariant: after any sequence of updates and resets
\* kalman_p_x and kalman_p_y are > 0 and at most their initial value 100,
\* the gain of every update is strictly between 0 and 1, and on each axis
\* the updated estimate lies between the previous estimate and the raw
\* measurement.
C30_KalmanStateInvariant ==
    /\ [](/\ 0 < kalman_p_x /\ kalman_p_x <= Fixed(100)
          /\ 0 < kalman_p_y /\ kalman_p_y <= Fixed(100))
    /\ [][updates' = updates + 1
            => /\ 0 < KalmanGain(kalman_p_x) /\ KalmanGain(kalman_p_x) < FixedOne
               /\ 0 < KalmanGain(kalman_p_y) /\ KalmanGain(kalman_p_y) < FixedOne
               /\ Between(kalman_x, kalman_x', Fixed(meas[1]))
               /\ Between(kalman_y, kalman_y', Fixed(meas[2]))]_vars

\* the first update after a reset, towards the far corner: the estimate has
\* moved most of the way and the error estimate has dropped below 1
C30_Witness ==
    /\ lastOp = "KalmanFilterStep"
    /\ updates = 1
    /\ meas = <<380, 600>>
    /\ Fixed(190) < kalman_x /\ kalman_x < Fixed(380)
    /\ Fixed(300) < kalman_y /\ kalman_y < Fixed(600)
    /\ 0 < kalman_p_x /\ kalman_p_x < FixedOne

----------------------------------------------------------------------------
(* The determinant test of the estimators, on anchors any distance apart:  *)
(* anchors a1, a2, a3 at (0, 0), (0, corner[2]), (corner[1], corner[2]).   *)

\* spacings of the anchors (cm), from a micrometre to the room; none makes
\* the determinant equal to a threshold, which no float product does
Spacings ==
    {RInt(0), Rat(1, 10000), Rat(1, 1000), Rat(1, 500), Rat(1, 100), Rat(1, 20),
     RInt(1), RInt(380), RInt(600)}

\* setAnchorPosition for the second and third anchor of the triplet
placeAnchors(t, s) ==
    /\ lastOp = "init"
    /\ corner' = <<t, s>>
    /\ lastOp' = "setAnchorPosition"
    /\ UNCHANGED <<tagVars, cycles, dist_to_a, quality_a, kalmanVars, positionX,
                   positionY, updates, meas, noise, rawLog, calls, calVars, vizVars,
                   solvedBy, ioVars>>

\* denominator = A1 * B2 - A2 * B1 for the three anchors
Denominator ==
    LET x1 == RInt(0)
        y1 == RInt(0)
        x2 == RInt(0)
        y2 == corner[2]
        x3 == corner[1]
        y3 == corner[2]
        A1 == RMul(RInt(2), RSub(x2, x1))
        B1 == RMul(RInt(2), RSub(y2, y1))
        A2 == RMul(RInt(2), RSub(x3, x2))
        B2 == RMul(RInt(2), RSub(y3, y2))
    IN  RSub(RMul(A1, B2), RMul(A2, B1))

\* abs(v) < 1/k and abs(v) > 1/k for a fraction v
AbsBelow(v, k) == Abs(v[1]) < v[2] /\ Abs(v[1]) * k < v[2]
AbsAbove(v, k) == Abs(v[1]) >= v[2] \/ Abs(v[1]) * k > v[2]

\* what each implementation does with the triplet:
\*   new     if (abs(denominator) < 0.000001) return false
\*   header  if (abs(denominator) < 0.0001) return false
\*   sketch  if (abs(den1) > 0.000001) { solve; count }
TripletTest(i) ==
    IF i = "new"
    THEN IF AbsBelow(Denominator, 1000000) THEN "discarded" ELSE "solved"
    ELSE IF i = "header"
    THEN IF AbsBelow(Denominator, 10000) THEN "discarded" ELSE "solved"
    ELSE IF AbsAbove(Denominator, 1000000) THEN "solved" ELSE "discarded"

\* one implementation asked to solve the triplet
solveTriplet(i) ==
    /\ lastOp # "init"
    /\ solvedBy[i] = "untried"
    /\ solvedBy' = [solvedBy EXCEPT ![i] = TripletTest(i)]
    /\ lastOp' = "calculatePositionFromTriplet"
    /\ UNCHANGED <<tagVars, cycles, dist_to_a, quality_a, kalmanVars, positionX,
                   positionY, updates, meas, noise, rawLog, calls, calVars, vizVars,
                   corner, ioVars>>

Next_d ==
    \/ \E t \in Spacings, s \in Spacings : placeAnchors(t, s)
    \/ \E i \in DOMAIN solvedBy : solveTriplet(i)

SpecDeterminant == Init_c /\ [][Next_d]_vars

\* C21 - Degenerate-triplet policy: every implementation discards a triplet
\* exactly when its determinant satisfies |den| <= 1e-6 and solves it
\* otherwise.
C21_DegenerateTripletPolicy ==
    \A i \in DOMAIN solvedBy :
        solvedBy[i] # "untried"
        => (solvedBy[i] = "discarded" <=> ~AbsAbove(Denominator, 1000000))

====
